---------------------------- MODULE Spec2Model ----------------------------
(***************************************************************************)
(* Model of the NESendo Qt front end (src/NESendo/app/gui.py): the         *)
(* emulation loop thread (EmulationThread.run), the control context (the   *)
(* GUI thread running NESendoGUI's handlers) and the emulator-core handle  *)
(* (NESEnv) they share.                                                    *)
(*                                                                         *)
(* Two execution contexts interleave.  The GUI thread runs one handler at  *)
(* a time; a handler is one action, split only where the code blocks       *)
(* (QThread.wait) or where it calls into the core, so that the loop        *)
(* thread's statements can interleave with the call.  The loop thread is   *)
(* modelled statement by statement through its position tpc[t].            *)
(***************************************************************************)
EXTENDS Integers, Naturals, FiniteSets, Sequences, TLC

\* Number of EmulationThread objects one run of the model may construct.
MaxSessions == 2
\* Number of distinct ROM files the user may pick.
MaxRoms == 1
\* Highest numbered quick-save slot exercised (the menus offer 1..4).
MaxSlot == 1

Threads == 1..MaxSessions
Roms == 1..MaxRoms
Slots == 0..MaxSlot
\* Python's None, for references to threads and ROM paths.
None == 0

VARIABLES
    \* ---- EmulationThread objects (one per constructed thread) ----
    tpc,            \* position of the thread in run(); "unborn" before __init__
    env,            \* self.env is not None
    running,        \* self.running
    paused,         \* self.paused
    fastforward,    \* self.fastforward
    fastforward_speed, \* self.fastforward_speed
    speed_request,  \* the latest set_fastforward_speed call: its thread and argument
    current_action, \* self.current_action of the thread
    \* ---- the emulator core handle created by thread t (NESEnv) ----
    created,        \* NESEnv(...) returned a handle
    closes,         \* number of close() calls made on the handle (capped at 2)
    done,           \* the core's done attribute
    \* ---- NESendoGUI (control context) ----
    rom_path,       \* self.rom_path
    emulation_thread, \* self.emulation_thread
    state_slots,    \* keys of self.state_slots
    gpc,            \* position of the GUI thread inside a handler
    gop,            \* the core operation a handler is performing
    gcont,          \* the handler that called stop_emulation and waits in it
    grom,           \* the file chosen in load_rom, assigned after the stop
    errq,           \* emulation_error signals queued to the GUI thread, per sender
    pressed_keys,   \* self.pressed_keys
    gui_action,     \* self.current_action of the window
    \* ---- the snapshot store ----
    slot_data,      \* self.state_slots[k], for the keys k in state_slots
    files,          \* the state files on disk
    backup,         \* the native backup the core holds for the handle of thread t
    ncap,           \* number of native backups made so far
    racing,         \* a core call of the loop ran during the GUI's backup or restore call in progress
    last_op,        \* the save or load handler the latest transition ended, and how
    \* ---- the keyboard ----
    held,           \* the keys that are physically down
    \* ---- history variables ----
    ev,             \* the operation performed by the latest transition
    faulted,        \* where run() of thread t caught an exception: "no", "init"
                    \* (NESEnv(...) or the first reset) or "tick" (step, or the
                    \* reset after a terminated step)
    errs,           \* number of emulation_error signals thread t emitted (capped at 2)
    lateUse,        \* a core operation was invoked on a handle after its close()
    lateStep,       \* thread t called step after it caught an exception
    sawPaused,      \* the loop read paused = True and resume() was not called since
    stepMask,       \* the action mask thread t passed to its latest step call
    last_set,       \* the argument of the latest set_action call on thread t (0 before any)
    \* ---- a snapshot on its way through a state file ----
    captured,       \* state_data, as capture_emulator_state returned it
    pickled,        \* serializable_state, as save_state_to_file pickled it
    reloaded,       \* state_data, as load_state_from_file returned it
    \* ---- dialogs ----
    reply,          \* the user's latest answer to the ROM mismatch question ("none" before any)
    \* ---- the ticks of the loop and their frames ----
    follow,         \* number of accepted ticks of thread t the model still follows
    count,          \* what thread t did in its followed ticks: steps returned, steps that
                    \* returned terminated or truncated, resets returned, frames emitted
    frame_count,    \* self.frame_count of thread t (counted while the ticks or
                    \* the time are followed)
    screen,         \* the core's screen of thread t: the followed step that rendered it
                    \* (0: the screen after a reset)
    frameq,         \* frame_ready signals queued to the GUI thread
    shown,          \* the frame update_frame displayed last
    \* ---- audio output ----
    audio_enabled,  \* self.audio_enabled
    audio_output,   \* self.audio_output is not None
    audio_device,   \* self.audio_device: "none", or "open" (the device audio_output.start() returned)
    listen,         \* number of audio chunks of thread t the model still follows
    audioq,         \* number of audio_ready signals queued to the GUI thread
    played,         \* what the latest play_audio call did
    \* ---- the core's audio buffer ----
    abuf,           \* samples in the audio buffer of thread t's core, not pulled yet
    made,           \* samples the steps of thread t's core have generated
    heard,          \* samples thread t has sent out in audio_ready chunks
    \* ---- time ----
    now,            \* time.time() in microseconds (-1: the model does not follow time)
    current_time,   \* current_time of run() of thread t
    last_frame_time,\* last_frame_time of run() of thread t
    fps_start_time, \* self.fps_start_time of thread t
    current_fps,    \* self.current_fps of thread t, in tenths of a frame per second
    fps_emitted,    \* number of fps_updated signals thread t has emitted
    \* ---- the writes of one play_audio call ----
    audio_bytes,    \* audio_bytes = audio_data.tobytes()
    chunk_i,        \* i of the loop over range(0, len(audio_bytes), chunk_size)
    written,        \* the arguments of the audio_device.write calls made, in order
    wpc             \* "idle", or where the loop is: "writing", "done", "raised"

threadVars == <<tpc, env, running, paused, fastforward>>
coreVars == <<created, closes, done>>
guiVars == <<rom_path, emulation_thread, state_slots, gpc, gop, gcont, grom, errq>>
histVars == <<ev, faulted, errs, lateUse, lateStep, sawPaused>>
speedVars == <<fastforward_speed, speed_request>>
inputVars == <<held, pressed_keys, gui_action, current_action, stepMask, last_set>>
storeVars == <<slot_data, files, backup, ncap, racing>>
fileVars == <<captured, pickled, reloaded>>
tickVars == <<follow, count, frame_count, screen, frameq, shown>>
audioVars == <<audio_enabled, audio_output, audio_device, listen, audioq, played>>
soundVars == <<abuf, made, heard>>
clockKept == <<now, current_time, last_frame_time, current_fps, fps_emitted>>
clockVars == <<clockKept, fps_start_time>>
chunkVars == <<audio_bytes, chunk_i, written, wpc>>
auxVars == <<fileVars, reply, tickVars, audioVars, soundVars, clockVars, chunkVars>>
vars == <<threadVars, coreVars, guiVars, histVars, speedVars, inputVars, storeVars, last_op,
         auxVars>>
\* Everything but the label of the latest transition.
progVars == <<threadVars, coreVars, guiVars, faulted, errs, lateUse, lateStep, sawPaused,
              speedVars, inputVars, storeVars, auxVars>>

\* The control operations whose calls the history variable ev records; every
\* other transition is recorded as "other".
Observed == {"init", "start", "restart", "stop", "pause", "resume"}
Ev(op, t) == IF op \in Observed
             THEN [op |-> op, on |-> t]
             ELSE [op |-> "other", on |-> None]

\* The core operation a GUI handler performs, and the slot it is for.
Op(op, k) == [op |-> op, slot |-> k]
NoOp == Op("none", 0)

Min(a, b) == IF a < b THEN a ELSE b

\* QThread.isRunning(): true from start() until run() has returned.
IsRunning(t) == tpc[t] \notin {"unborn", "finished"}

\* The handle of thread t is live: created and not yet closed.
Live(t) == created[t] /\ closes[t] = 0

\* is_emulation_running without its tests.
is_emulation_running_always == TRUE

\* NESendoGUI.is_emulation_running
is_emulation_running == emulation_thread # None /\ IsRunning(emulation_thread)

\* The loop thread is inside a call into the core.
InStep(t) == tpc[t] = "in_step"
InLoopCoreCall(t) == tpc[t] \in {"in_reset0", "in_step", "in_reset"}

\* The GUI thread is inside a call into the core (made on emulation_thread.env).
InGuiCall == gpc = "in_call"

\* A native backup or restore call of the GUI thread is in progress on the
\* handle of thread t: a core call the loop makes meanwhile runs beside it.
Races(t) ==
    /\ InGuiCall
    /\ gop.op \in {"backup", "restore"}
    /\ t = emulation_thread

\* A thread object constructed with self.paused = True.
InitPausedSet == TRUE

\* EmulationThread.__init__: the fields of a newly constructed thread object.
InitRunning == FALSE
InitPaused == FALSE
InitFastforward == FALSE

(***************************************************************************)
(* Python floats, as far as the fastforward multiplier needs them: a float *)
(* is NaN or a multiple of 1/FloatScale.                                   *)
(***************************************************************************)
FloatScale == 2
Float(n) == [nan |-> FALSE, v |-> n]
NaN == [nan |-> TRUE, v |-> 0]
\* a > b on floats: every comparison with NaN is false.
FloatGt(a, b) == ~a.nan /\ ~b.nan /\ a.v > b.v
\* a >= b on floats
FloatGe(a, b) == ~a.nan /\ ~b.nan /\ a.v >= b.v

\* Python's max(a, b): b when b > a, else a.
PyMax(a, b) == IF FloatGt(b, a) THEN b ELSE a

\* EmulationThread.__init__: self.fastforward_speed = 2.0
InitFastforwardSpeed == Float(2 * FloatScale)
\* No set_fastforward_speed call was made on a thread the GUI still holds.
NoRequest == [on |-> None, arg |-> NaN]

\* EmulationThread.__init__: self.current_action = 0
InitCurrentAction == 0

(***************************************************************************)
(* Snapshots.  A save is identified by its number: the native backup made  *)
(* by the n-th _backup() call and the state_data captured by the same      *)
(* handler both carry n.  A snapshot also records the thread whose handle  *)
(* it was taken from (None for a snapshot read from a file) and the ROM.   *)
(***************************************************************************)
\* Number of _backup() calls one run of the model may make.
MaxCaptures == 2
\* No save: an empty native backup, an absent slot or file.
NoSave == 0
NoData == [save |-> NoSave, by |-> None, rom |-> None]
\* The native backup of a handle: the save that made it, and whether it is
\* torn, that is a copy taken while the loop was mutating the core and so the
\* state of no single moment.
NoBackup == [save |-> NoSave, torn |-> FALSE]
\* get_state_filename(slot): <state directory>/<ROM base name>_slot_<slot>.state
SlotFile(r, k) == <<r, k>>
\* A path chosen in a file dialog.
UserFile == <<None, 0>>
\* Another ROM file than those of Roms: the ROM of a state file left by an
\* earlier run of the program, and of the sessions about a change of ROM.
ForeignRom == MaxRoms + 1
RomPaths == Roms \cup {ForeignRom}
FileNames == {SlotFile(r, k) : r \in RomPaths, k \in Slots \ {0}} \cup {UserFile}
\* How a save or load handler ends: "ok", "failed" (an exception was caught
\* and shown), "refused" (no emulation is running), "absent" (no snapshot in
\* the slot), "cancelled" or "declined" (by the user); save is the native
\* backup a load restored, exact whether the core then holds that save's state.
StoreOp(op, k, result, n) ==
    [op |-> op, slot |-> k, result |-> result, save |-> n, exact |-> FALSE]
NoStoreOp == StoreOp("none", 0, "none", NoSave)
ForeignRecord == [save |-> NoSave, by |-> None, rom |-> ForeignRom]
\* The snapshots a slot or a file may hold.
SnapshotData ==
    [save : 0..MaxCaptures, by : Threads \cup {None}, rom : RomPaths \cup {None}]

(***************************************************************************)
(* State files.  A Python value is modelled with its type: None, a numpy   *)
(* array of bytes (uint8) or of Python ints read back (int64), a list.     *)
(***************************************************************************)
\* Longest RAM image exercised, and the byte values it is drawn from.
MaxRam == 2
MaxTicks == 2
MaxChunks == 2
NoneValue == [type |-> "NoneType", v |-> <<>>]
ndarray(dtype, v) == [type |-> dtype, v |-> v]
\* ndarray.tolist(): a list of Python ints with the same values
tolist(a) == [type |-> "list", v |-> a.v]
\* np.array(list of ints): an array of the platform integer type
np_array(l) == [type |-> "int64", v |-> l.v]
\* [c[0].tolist(), c[1].tolist()] and [np.array(c[0]), np.array(c[1])]
list_of(f(_), c) == [type |-> "list", v |-> <<f(c.v[1]), f(c.v[2])>>]
\* Truth value of None and of a two-element list.
Truthy(x) == x # NoneValue

Bytes == {0, 255}
RamImages == UNION {[1..n -> Bytes] : n \in 0..MaxRam}
Uint8Arrays == {ndarray("uint8", v) : v \in RamImages}
ControllerArrays == {ndarray("uint8", <<b>>) : b \in {0, 1}}
\* The values capture_emulator_state returns: the ROM path, copies of the
\* core's screen, ram and controllers (None for an attribute the core
\* lacks), its done flag, and time.time().
StateDatas ==
    [rom_path : Roms,
     screen : {NoneValue, ndarray("uint8", <<0>>)},
     ram : Uint8Arrays \cup {NoneValue},
     controllers : {[type |-> "list", v |-> <<a, b>>] :
                        a \in ControllerArrays, b \in ControllerArrays}
                   \cup {NoneValue},
     done : BOOLEAN,
     timestamp : {1, 2}]

\* save_state_to_file without the RAM image.
serializable_state_no_ram(state_data) ==
    [rom_path |-> state_data.rom_path,
     ram |-> NoneValue,
     controllers |-> IF Truthy(state_data.controllers)
                     THEN list_of(tolist, state_data.controllers)
                     ELSE NoneValue,
     done |-> state_data.done,
     timestamp |-> state_data.timestamp,
     version |-> "1.0"]

\* save_state_to_file: the record that is pickled (the screen is not part of it)
serializable_state(state_data) ==
    [rom_path |-> state_data.rom_path,
     ram |-> IF state_data.ram # NoneValue THEN tolist(state_data.ram) ELSE NoneValue,
     controllers |-> IF Truthy(state_data.controllers)
                     THEN list_of(tolist, state_data.controllers)
                     ELSE NoneValue,
     done |-> state_data.done,
     timestamp |-> state_data.timestamp,
     version |-> "1.0"]

\* load_state_from_file: the state_data built from the unpickled record
load_state_from_file(record) ==
    [rom_path |-> record.rom_path,
     ram |-> IF record.ram # NoneValue THEN np_array(record.ram) ELSE NoneValue,
     controllers |-> IF record.controllers # NoneValue
                     THEN list_of(np_array, record.controllers)
                     ELSE NoneValue,
     done |-> record.done,
     timestamp |-> record.timestamp]

\* The program after NESendoGUI.__init__: no ROM, no thread, empty slots.
InitIdle ==
    /\ tpc = [t \in Threads |-> "unborn"]
    /\ env = [t \in Threads |-> FALSE]
    /\ running = [t \in Threads |-> InitRunning]
    /\ paused = [t \in Threads |-> InitPaused]
    /\ fastforward = [t \in Threads |-> InitFastforward]
    /\ created = [t \in Threads |-> FALSE]
    /\ closes = [t \in Threads |-> 0]
    /\ done = [t \in Threads |-> FALSE]
    /\ rom_path = None
    /\ emulation_thread = None
    /\ state_slots = {}
    /\ gpc = "idle"
    /\ gop = NoOp
    /\ gcont = "none"
    /\ grom = None
    /\ errq = [t \in Threads |-> 0]
    /\ ev = Ev("init", None)
    /\ faulted = [t \in Threads |-> "no"]
    /\ errs = [t \in Threads |-> 0]
    /\ lateUse = FALSE
    /\ lateStep = [t \in Threads |-> FALSE]
    /\ sawPaused = [t \in Threads |-> FALSE]
    /\ fastforward_speed = [t \in Threads |-> InitFastforwardSpeed]
    /\ speed_request = NoRequest
    /\ held = {}
    /\ pressed_keys = {}
    /\ gui_action = 0
    /\ current_action = [t \in Threads |-> InitCurrentAction]
    /\ stepMask = [t \in Threads |-> 0]
    /\ last_set = [t \in Threads |-> 0]
    /\ slot_data = [k \in Slots |-> NoData]
    /\ backup = [t \in Threads |-> NoBackup]
    /\ ncap = 0
    /\ racing = FALSE
    /\ last_op = NoStoreOp

\* No snapshot is on its way through a file.
FileIdle ==
    /\ captured = NoneValue
    /\ pickled = NoneValue
    /\ reloaded = NoneValue

\* No state file is on disk.
NoFiles == files = [f \in FileNames |-> NoData]

\* No tick has been run, no frame emitted or displayed.
NoCount == [steps |-> 0, ends |-> 0, resets |-> 0, frames |-> 0, pulls |-> 0]
NoFrame == [at |-> 0, seen |-> 0, shown |-> FALSE]
TicksIdle ==
    /\ count = [t \in Threads |-> NoCount]
    /\ frame_count = [t \in Threads |-> 0]
    /\ screen = [t \in Threads |-> 0]
    /\ frameq = <<>>
    /\ shown = NoFrame

\* The ticks are not followed.
Unfollowed == follow = [t \in Threads |-> 0]

\* __init__ and init_audio: audio is enabled, the QAudioOutput object exists
\* (init_audio did not fail), no device is bound, no chunk was played.
NoPlay == [gate |-> "none", open |-> FALSE, write |-> FALSE, failed |-> FALSE]
AudioUnbound ==
    /\ audio_enabled = TRUE
    /\ audio_device = "none"
    /\ audioq = 0
    /\ played = NoPlay
\* The audio chunks are not followed.
Unheard == listen = [t \in Threads |-> 0]
AudioIdle == AudioUnbound /\ audio_output = TRUE /\ Unheard

\* No core has generated a sample.
Silent ==
    /\ abuf = [t \in Threads |-> 0]
    /\ made = [t \in Threads |-> 0]
    /\ heard = [t \in Threads |-> 0]

\* No thread has read the clock.
ClockIdle ==
    /\ current_time = [t \in Threads |-> 0]
    /\ last_frame_time = [t \in Threads |-> 0]
    /\ fps_start_time = [t \in Threads |-> 0]
    /\ current_fps = [t \in Threads |-> 0]
    /\ fps_emitted = [t \in Threads |-> 0]
\* Time is not followed.
Untimed == now = -1 /\ ClockIdle
\* Time is followed.
Timed == now >= 0
\* time.time()
Clock == IF Timed THEN now ELSE 0

\* No play_audio call is followed through its writes.
WriteIdle ==
    /\ audio_bytes = <<>>
    /\ chunk_i = 0
    /\ written = <<>>
    /\ wpc = "idle"

AuxIdle ==
    /\ FileIdle /\ reply = "none" /\ TicksIdle /\ Unfollowed /\ AudioIdle /\ Silent
    /\ Untimed /\ WriteIdle

Init == InitIdle /\ NoFiles /\ AuxIdle


(***************************************************************************)
(* The loop thread: EmulationThread.run, one action per statement group.   *)
(***************************************************************************)

\* The exception is swallowed inside the loop and the loop goes on.
RaiseRetry(t, where) ==
    /\ tpc' = [tpc EXCEPT ![t] = "loop_test"]
    /\ faulted' = [faulted EXCEPT ![t] = where]

\* An exception propagates to the except clause of run().
Raise(t, where) ==
    /\ tpc' = [tpc EXCEPT ![t] = "except"]
    /\ faulted' = [faulted EXCEPT ![t] = where]

\* self.env = NESEnv(self.rom_path): the constructor returns a handle or raises.
Construct(t) ==
    /\ tpc[t] = "construct"
    /\ \E ok \in BOOLEAN :
        IF ok
        THEN /\ created' = [created EXCEPT ![t] = TRUE]
             /\ env' = [env EXCEPT ![t] = TRUE]
             /\ tpc' = [tpc EXCEPT ![t] = "in_reset0"]
             /\ UNCHANGED faulted
        ELSE /\ Raise(t, "init")
             /\ UNCHANGED <<created, env>>
    /\ ev' = Ev("construct", t)
    /\ UNCHANGED <<running, paused, fastforward, closes, done, guiVars,
                   errs, lateUse, lateStep, sawPaused>>
    /\ UNCHANGED speedVars
    /\ UNCHANGED inputVars
    /\ UNCHANGED storeVars
    /\ last_op' = NoStoreOp
    /\ UNCHANGED auxVars

\* self.env.reset() before the loop returns or raises.
Reset0End(t) ==
    /\ tpc[t] = "in_reset0"
    /\ \E ok \in BOOLEAN :
        IF ok
        THEN /\ done' = [done EXCEPT ![t] = FALSE]
             /\ tpc' = [tpc EXCEPT ![t] = "set_running"]
             /\ UNCHANGED faulted
        ELSE /\ Raise(t, "init")
             /\ UNCHANGED done
    /\ ev' = Ev("reset0", t)
    /\ UNCHANGED <<env, running, paused, fastforward, created, closes, guiVars,
                   errs, lateUse, lateStep, sawPaused>>
    /\ UNCHANGED speedVars
    /\ UNCHANGED inputVars
    /\ UNCHANGED storeVars
    /\ last_op' = NoStoreOp
    /\ UNCHANGED auxVars

\* self.running = True
SetRunning(t) ==
    /\ tpc[t] = "set_running"
    /\ running' = [running EXCEPT ![t] = TRUE]
    /\ tpc' = [tpc EXCEPT ![t] = "set_paused"]
    /\ ev' = Ev("set_running", t)
    /\ UNCHANGED <<env, paused, fastforward, coreVars, guiVars,
                   faulted, errs, lateUse, lateStep, sawPaused>>
    /\ UNCHANGED speedVars
    /\ UNCHANGED inputVars
    /\ UNCHANGED storeVars
    /\ last_op' = NoStoreOp
    /\ UNCHANGED auxVars

\* self.paused = False
SetPaused(t) ==
    /\ tpc[t] = "set_paused"
    /\ paused' = [paused EXCEPT ![t] = FALSE]
    /\ tpc' = [tpc EXCEPT ![t] = "set_ff"]
    /\ ev' = Ev("set_paused", t)
    /\ UNCHANGED <<env, running, fastforward, coreVars, guiVars,
                   faulted, errs, lateUse, lateStep, sawPaused>>
    /\ UNCHANGED speedVars
    /\ UNCHANGED inputVars
    /\ UNCHANGED storeVars
    /\ last_op' = NoStoreOp
    /\ UNCHANGED auxVars

\* self.fastforward = False
SetFastforward(t) ==
    /\ tpc[t] = "set_ff"
    /\ fastforward' = [fastforward EXCEPT ![t] = FALSE]
    /\ tpc' = [tpc EXCEPT ![t] = "loop_test"]
    /\ last_frame_time' = [last_frame_time EXCEPT ![t] = Clock]
    /\ ev' = Ev("set_ff", t)
    /\ UNCHANGED <<env, running, paused, coreVars, guiVars,
                   faulted, errs, lateUse, lateStep, sawPaused>>
    /\ UNCHANGED speedVars
    /\ UNCHANGED inputVars
    /\ UNCHANGED storeVars
    /\ last_op' = NoStoreOp
    /\ UNCHANGED <<fileVars, reply, tickVars, audioVars, soundVars>>
    /\ UNCHANGED <<now, current_time, fps_start_time, current_fps, fps_emitted>>
    /\ UNCHANGED chunkVars

\* while self.running: the loop continues, or run() falls to its finally clause.
LoopTest(t) ==
    /\ tpc[t] = "loop_test"
    /\ tpc' = [tpc EXCEPT ![t] = IF running[t] THEN "check_paused" ELSE "finally"]
    /\ current_time' = IF running[t] THEN [current_time EXCEPT ![t] = Clock]
                       ELSE current_time
    /\ ev' = Ev("loop_test", t)
    /\ UNCHANGED <<env, running, paused, fastforward, coreVars, guiVars,
                   faulted, errs, lateUse, lateStep, sawPaused>>
    /\ UNCHANGED speedVars
    /\ UNCHANGED inputVars
    /\ UNCHANGED storeVars
    /\ last_op' = NoStoreOp
    /\ UNCHANGED <<fileVars, reply, tickVars, audioVars, soundVars>>
    /\ UNCHANGED <<now, last_frame_time, fps_start_time, current_fps, fps_emitted>>
    /\ UNCHANGED chunkVars

\* The loop reads self.paused and goes on to the tick all the same.
CheckPausedIgnored(t) ==
    /\ tpc[t] = "check_paused"
    /\ tpc' = [tpc EXCEPT ![t] = "pace"]
    /\ sawPaused' = [sawPaused EXCEPT ![t] = @ \/ paused[t]]
    /\ ev' = Ev("check_paused", t)
    /\ UNCHANGED <<env, running, paused, fastforward, coreVars, guiVars,
                   faulted, errs, lateUse, lateStep>>
    /\ UNCHANGED speedVars
    /\ UNCHANGED inputVars
    /\ UNCHANGED storeVars
    /\ last_op' = NoStoreOp
    /\ UNCHANGED auxVars

\* if self.paused: time.sleep(0.001); continue
CheckPaused(t) ==
    /\ tpc[t] = "check_paused"
    /\ IF paused[t]
       THEN /\ tpc' = [tpc EXCEPT ![t] = "loop_test"]
            /\ sawPaused' = [sawPaused EXCEPT ![t] = TRUE]
       ELSE /\ tpc' = [tpc EXCEPT ![t] = "pace"]
            /\ UNCHANGED sawPaused
    /\ ev' = Ev("check_paused", t)
    /\ UNCHANGED <<env, running, paused, fastforward, coreVars, guiVars,
                   faulted, errs, lateUse, lateStep>>
    /\ UNCHANGED speedVars
    /\ UNCHANGED inputVars
    /\ UNCHANGED storeVars
    /\ last_op' = NoStoreOp
    /\ UNCHANGED auxVars

\* self.frame_duration = 1.0 / self.target_fps with target_fps = 60, in microseconds
FrameDuration == 16666

\* run(): current_frame_duration, as the loop computes it for a tick of thread t.
\* The quotient of the floats is rounded down to a microsecond.
EffectiveInterval(t) ==
    IF fastforward[t]
    THEN (FrameDuration * FloatScale) \div fastforward_speed[t].v
    ELSE FrameDuration

\* A frame-rate test that every iteration passes.
DueAlways(t) == TRUE

\* if current_time - last_frame_time >= current_frame_duration
Due(t) == current_time[t] - last_frame_time[t] >= EffectiveInterval(t)

\* The frame-rate test: the interval since the last accepted tick has elapsed
\* (due) or the loop sleeps and tests again. Where time is not followed the
\* test may go either way.
Pace(t) ==
    /\ tpc[t] = "pace"
    /\ \E due \in BOOLEAN :
        /\ Timed => (due = Due(t))
        /\ tpc' = [tpc EXCEPT ![t] = IF due THEN "check_done" ELSE "loop_test"]
    /\ ev' = Ev("pace", t)
    /\ UNCHANGED <<env, running, paused, fastforward, coreVars, guiVars,
                   faulted, errs, lateUse, lateStep, sawPaused>>
    /\ UNCHANGED speedVars
    /\ UNCHANGED inputVars
    /\ UNCHANGED storeVars
    /\ last_op' = NoStoreOp
    /\ UNCHANGED auxVars

\* The model follows the tick of thread t in progress.
Followed(t) == follow[t] > 0

\* env.step returned: the core rendered its screen anew.
Stepped(t, out) ==
    IF Followed(t) /\ out # "raise"
    THEN /\ count' = [count EXCEPT ![t].steps = @ + 1,
                                     ![t].ends = @ + (IF out = "terminated" THEN 1 ELSE 0)]
         /\ screen' = [screen EXCEPT ![t] = count[t].steps + 1]
    ELSE UNCHANGED <<count, screen>>

\* While it steps the core appends the samples of the frame to its audio buffer.
Sounded(t, out, sound) ==
    IF listen[t] > 0 /\ out # "raise" /\ sound
    THEN /\ abuf' = [abuf EXCEPT ![t] = @ + 1]
         /\ made' = [made EXCEPT ![t] = @ + 1]
    ELSE UNCHANGED <<abuf, made>>

\* if self.env and not self.env.done, answered no: the loop sleeps.
CheckDoneSleeps(t) ==
    /\ tpc[t] = "check_done"
    /\ tpc' = [tpc EXCEPT ![t] = "loop_test"]
    /\ ev' = Ev("skip", t)
    /\ UNCHANGED <<env, running, paused, fastforward, coreVars, guiVars,
                   faulted, errs, lateUse, lateStep, sawPaused>>
    /\ UNCHANGED <<speedVars, inputVars, storeVars>>
    /\ last_op' = NoStoreOp
    /\ UNCHANGED auxVars

\* if self.env and not self.env.done: the call of env.step begins; else sleep.
CheckDone(t) ==
    /\ tpc[t] = "check_done"
    /\ IF env[t] /\ ~done[t]
       THEN /\ tpc' = [tpc EXCEPT ![t] = "in_step"]
            /\ stepMask' = [stepMask EXCEPT ![t] = current_action[t]]
            /\ lateStep' = [lateStep EXCEPT ![t] = (faulted[t] # "no")]
            /\ racing' = (racing \/ Races(t))
            /\ ev' = Ev("step", t)
       ELSE /\ tpc' = [tpc EXCEPT ![t] = "loop_test"]
            /\ UNCHANGED <<lateStep, stepMask, racing>>
            /\ ev' = Ev("skip", t)
    /\ UNCHANGED <<held, pressed_keys, gui_action, current_action, last_set>>
    /\ UNCHANGED <<env, running, paused, fastforward, coreVars, guiVars,
                   faulted, errs, lateUse, sawPaused>>
    /\ UNCHANGED speedVars
    /\ UNCHANGED <<slot_data, files, backup, ncap>>
    /\ last_op' = NoStoreOp
    /\ UNCHANGED auxVars

\* env.step returns (terminated or not) or raises; on termination the call of
\* env.reset() begins.
StepEnd(t) ==
    /\ tpc[t] = "in_step"
    /\ \E out \in {"ok", "terminated", "raise"} :
     /\ Stepped(t, out)
     /\ CASE out = "ok" ->
                /\ done' = [done EXCEPT ![t] = FALSE]
                /\ tpc' = [tpc EXCEPT ![t] = "emit_frame"]
                /\ UNCHANGED faulted
          [] out = "terminated" ->
                /\ done' = [done EXCEPT ![t] = TRUE]
                /\ tpc' = [tpc EXCEPT ![t] = "in_reset"]
                /\ UNCHANGED faulted
          [] OTHER ->
                /\ Raise(t, "tick")
                /\ UNCHANGED done
     /\ \E sound \in BOOLEAN : Sounded(t, out, sound)
    /\ ev' = Ev("step_end", t)
    /\ UNCHANGED <<env, running, paused, fastforward, created, closes, guiVars,
                   errs, lateUse, lateStep, sawPaused>>
    /\ UNCHANGED speedVars
    /\ UNCHANGED inputVars
    /\ UNCHANGED storeVars
    /\ last_op' = NoStoreOp
    /\ UNCHANGED <<audioVars, fileVars, reply, follow, frame_count, frameq, shown, heard>>
    /\ UNCHANGED clockVars
    /\ UNCHANGED chunkVars

\* The env.reset() after a terminated step returns or raises.
ResetEnd(t) ==
    /\ tpc[t] = "in_reset"
    /\ \E ok \in BOOLEAN :
        IF ok
        THEN /\ done' = [done EXCEPT ![t] = FALSE]
             /\ IF Followed(t)
                THEN /\ count' = [count EXCEPT ![t].resets = @ + 1]
                     /\ screen' = [screen EXCEPT ![t] = 0]
                ELSE UNCHANGED <<count, screen>>
             /\ tpc' = [tpc EXCEPT ![t] = "emit_frame"]
             /\ UNCHANGED faulted
        ELSE /\ Raise(t, "tick")
             /\ UNCHANGED <<done, count, screen>>
    /\ ev' = Ev("reset_end", t)
    /\ UNCHANGED <<env, running, paused, fastforward, created, closes, guiVars,
                   errs, lateUse, lateStep, sawPaused>>
    /\ UNCHANGED speedVars
    /\ UNCHANGED inputVars
    /\ UNCHANGED storeVars
    /\ last_op' = NoStoreOp
    /\ UNCHANGED <<audioVars, fileVars, reply, follow, frame_count, frameq, shown>>
    /\ UNCHANGED soundVars
    /\ UNCHANGED clockVars
    /\ UNCHANGED chunkVars

\* The tick going on without its frame_ready.emit.
EmitNothing(t) ==
    /\ tpc[t] = "emit_frame"
    /\ tpc' = [tpc EXCEPT ![t] = "pull_audio"]
    /\ ev' = Ev("frame", t)
    /\ last_op' = NoStoreOp
    /\ UNCHANGED <<env, running, paused, fastforward, coreVars, guiVars,
                   faulted, errs, lateUse, lateStep, sawPaused>>
    /\ UNCHANGED <<speedVars, inputVars, storeVars, auxVars>>

\* self.frame_ready.emit(self.env.screen)
EmitFrame(t) ==
    /\ tpc[t] = "emit_frame"
    /\ tpc' = [tpc EXCEPT ![t] = "pull_audio"]
    /\ ev' = Ev("frame", t)
    /\ UNCHANGED <<env, running, paused, fastforward, coreVars, guiVars,
                   faulted, errs, lateUse, lateStep, sawPaused>>
    /\ UNCHANGED speedVars
    /\ UNCHANGED inputVars
    /\ UNCHANGED storeVars
    /\ last_op' = NoStoreOp
    /\ IF Followed(t)
       THEN /\ count' = [count EXCEPT ![t].frames = @ + 1]
            /\ frameq' = Append(frameq, [of |-> t, at |-> screen[t]])
       ELSE UNCHANGED <<count, frameq>>
    /\ UNCHANGED <<audioVars, fileVars, reply, follow, frame_count, screen, shown>>
    /\ UNCHANGED soundVars
    /\ UNCHANGED clockVars
    /\ UNCHANGED chunkVars

\* A pull that leaves the samples in the core's buffer.
get_audio_buffer(buffered) == [chunk |-> buffered, left |-> buffered]

\* NESEnv.get_and_clear_audio_buffer(): the samples buffered since the last pull
\* are returned and the buffer is emptied.
get_and_clear_audio_buffer(buffered) == [chunk |-> buffered, left |-> 0]

\* audio_data = self.env.get_and_clear_audio_buffer(); emitted when non-empty
PullAudio(t) ==
    /\ tpc[t] = "pull_audio"
    /\ tpc' = [tpc EXCEPT ![t] = "count_fps"]
    /\ ev' = Ev("audio", t)
    /\ UNCHANGED <<env, running, paused, fastforward, coreVars, guiVars,
                   faulted, errs, lateUse, lateStep, sawPaused>>
    /\ UNCHANGED speedVars
    /\ UNCHANGED inputVars
    /\ UNCHANGED storeVars
    /\ last_op' = NoStoreOp
    /\ LET pulled == get_and_clear_audio_buffer(abuf[t])
       IN /\ abuf' = [abuf EXCEPT ![t] = pulled.left]
          /\ IF pulled.chunk > 0
             THEN /\ audioq' = audioq + 1
                  /\ heard' = [heard EXCEPT ![t] = @ + pulled.chunk]
                  /\ listen' = [listen EXCEPT ![t] = IF @ > 0 THEN @ - 1 ELSE 0]
             ELSE UNCHANGED <<audioq, heard, listen>>
    /\ IF Followed(t)
       THEN count' = [count EXCEPT ![t].pulls = @ + 1]
       ELSE UNCHANGED count
    /\ UNCHANGED <<fileVars, reply, follow, frame_count, screen, frameq, shown, made>>
    /\ UNCHANGED <<audio_enabled, audio_output, audio_device, played>>
    /\ UNCHANGED clockVars
    /\ UNCHANGED chunkVars

\* if self.frame_count % 30 == 0: the FPS estimate is updated every 30 frames
FpsEvery == 30

\* An FPS estimate made at every tick.
FpsDueAlways(n, elapsed_time) == elapsed_time > 0

\* if self.frame_count % 30 == 0: ... if elapsed_time > 0:
FpsDue(n, elapsed_time) == n % FpsEvery = 0 /\ elapsed_time > 0

\* self.frame_count / elapsed_time: frames per second, in tenths and rounded
\* down (the time is in microseconds).
FpsOf(n, elapsed_time) == (n * 10000000) \div elapsed_time

\* self.frame_count += 1, the FPS estimate, last_frame_time = current_time
CountFps(t) ==
    /\ tpc[t] = "count_fps"
    /\ tpc' = [tpc EXCEPT ![t] = "loop_test"]
    /\ ev' = Ev("count", t)
    /\ UNCHANGED <<env, running, paused, fastforward, coreVars, guiVars,
                   faulted, errs, lateUse, lateStep, sawPaused>>
    /\ UNCHANGED speedVars
    /\ UNCHANGED inputVars
    /\ UNCHANGED storeVars
    /\ last_op' = NoStoreOp
    /\ frame_count' = IF Followed(t) \/ Timed
                      THEN [frame_count EXCEPT ![t] = @ + 1]
                      ELSE frame_count
    /\ follow' = IF Followed(t) THEN [follow EXCEPT ![t] = @ - 1] ELSE follow
    /\ LET elapsed_time == current_time[t] - fps_start_time[t]
       IN IF Timed /\ FpsDue(frame_count'[t], elapsed_time)
          THEN /\ current_fps' = [current_fps EXCEPT
                                    ![t] = FpsOf(frame_count'[t], elapsed_time)]
               /\ fps_emitted' = [fps_emitted EXCEPT ![t] = @ + 1]
          ELSE UNCHANGED <<current_fps, fps_emitted>>
    /\ last_frame_time' = IF Timed THEN [last_frame_time EXCEPT ![t] = current_time[t]]
                          ELSE last_frame_time
    /\ UNCHANGED <<audioVars, fileVars, reply, count, screen, frameq, shown>>
    /\ UNCHANGED soundVars
    /\ UNCHANGED <<now, current_time, fps_start_time>>
    /\ UNCHANGED chunkVars

\* except Exception as e: self.emulation_error.emit(str(e))
Except(t) ==
    /\ tpc[t] = "except"
    /\ errs' = [errs EXCEPT ![t] = Min(@ + 1, 2)]
    /\ errq' = [errq EXCEPT ![t] = Min(@ + 1, 2)]
    /\ tpc' = [tpc EXCEPT ![t] = "finally"]
    /\ ev' = Ev("fault", t)
    /\ UNCHANGED <<env, running, paused, fastforward, coreVars,
                   rom_path, emulation_thread, state_slots, gpc, gop, gcont, grom,
                   faulted, lateUse, lateStep, sawPaused>>
    /\ UNCHANGED speedVars
    /\ UNCHANGED inputVars
    /\ UNCHANGED storeVars
    /\ last_op' = NoStoreOp
    /\ UNCHANGED auxVars

\* A finally clause that returns without closing the handle.
FinallyLeaks(t) ==
    /\ tpc[t] = "finally"
    /\ tpc' = [tpc EXCEPT ![t] = IF env[t] THEN "clear_env" ELSE "finished"]
    /\ ev' = Ev("finish", t)
    /\ UNCHANGED <<env, running, paused, fastforward, coreVars, guiVars,
                   faulted, errs, lateUse, lateStep, sawPaused>>
    /\ UNCHANGED <<speedVars, inputVars, storeVars>>
    /\ last_op' = NoStoreOp
    /\ UNCHANGED auxVars

\* finally: if self.env: self.env.close()
Finally(t) ==
    /\ tpc[t] = "finally"
    /\ IF env[t]
       THEN /\ closes' = [closes EXCEPT ![t] = Min(@ + 1, 2)]
            /\ tpc' = [tpc EXCEPT ![t] = "clear_env"]
            /\ ev' = Ev("close", t)
       ELSE /\ tpc' = [tpc EXCEPT ![t] = "finished"]
            /\ UNCHANGED closes
            /\ ev' = Ev("finish", t)
    /\ UNCHANGED <<env, running, paused, fastforward, created, done, guiVars,
                   faulted, errs, lateUse, lateStep, sawPaused>>
    /\ UNCHANGED speedVars
    /\ UNCHANGED inputVars
    /\ UNCHANGED storeVars
    /\ last_op' = NoStoreOp
    /\ UNCHANGED auxVars

\* self.env = None, after which run() returns and the thread is finished.
ClearEnv(t) ==
    /\ tpc[t] = "clear_env"
    /\ env' = [env EXCEPT ![t] = FALSE]
    /\ tpc' = [tpc EXCEPT ![t] = "finished"]
    /\ ev' = Ev("finish", t)
    /\ UNCHANGED <<running, paused, fastforward, coreVars, guiVars,
                   faulted, errs, lateUse, lateStep, sawPaused>>
    /\ UNCHANGED speedVars
    /\ UNCHANGED inputVars
    /\ UNCHANGED storeVars
    /\ last_op' = NoStoreOp
    /\ UNCHANGED auxVars

\* EmulationThread.run from its while loop on.
RunLoop(t) ==
    \/ LoopTest(t)
    \/ CheckPaused(t)
    \/ Pace(t)
    \/ CheckDone(t)
    \/ StepEnd(t)
    \/ ResetEnd(t)
    \/ EmitFrame(t)
    \/ PullAudio(t)
    \/ CountFps(t)
    \/ Except(t)
    \/ Finally(t)
    \/ ClearEnv(t)

\* EmulationThread.run
Run(t) ==
    \/ Construct(t)
    \/ Reset0End(t)
    \/ SetRunning(t)
    \/ SetPaused(t)
    \/ SetFastforward(t)
    \/ RunLoop(t)


(***************************************************************************)
(* The control context: NESendoGUI's handlers, run by the GUI thread.      *)
(***************************************************************************)

\* The model can construct another EmulationThread object.
CanCreate == \E t \in Threads : tpc[t] = "unborn"
NextThread == CHOOSE t \in Threads :
                 tpc[t] = "unborn" /\ \A u \in Threads : u < t => tpc[u] # "unborn"

\* A wait that gives up: wait(msecs) whose timeout has elapsed.
WaitTimesOut(t) == TRUE

\* QThread.wait() as EmulationThread.stop calls it, without a timeout: it
\* returns when run() has returned.
WaitReturns(t) == tpc[t] = "finished"

\* start_emulation, from the try block on: a thread object is constructed,
\* its signals are connected and QThread.start() is called.
CreateThread ==
    /\ emulation_thread' = NextThread
    /\ tpc' = [tpc EXCEPT ![NextThread] = "construct"]

\* EmulationThread.__init__ and reset_fps_calculation, on the thread the handler
\* has created: self.fps_start_time = time.time()
FpsWindowStart ==
    fps_start_time' = IF emulation_thread' # emulation_thread /\ emulation_thread' # None
                      THEN [fps_start_time EXCEPT ![emulation_thread'] = Clock]
                      ELSE fps_start_time

\* self.emulation_thread is overwritten or set to None: a finished thread
\* object that the GUI referenced becomes garbage, and so does its core
\* object.  The fields of a garbage object are no part of the program's state:
\* they go back to their initial values.  The handle's history (created,
\* closes) and the thread's (faulted, errs) stay, and so do the signals it
\* queued (errq).  A thread that has not finished keeps its fields.
Dropped(f, init) ==
    IF emulation_thread # None /\ tpc[emulation_thread] = "finished"
    THEN [f EXCEPT ![emulation_thread] = init]
    ELSE f
DropThread ==
    /\ running' = Dropped(running, InitRunning)
    /\ paused' = Dropped(paused, InitPaused)
    /\ fastforward' = Dropped(fastforward, InitFastforward)
    /\ done' = Dropped(done, FALSE)
    /\ sawPaused' = Dropped(sawPaused, FALSE)
    /\ fastforward_speed' = Dropped(fastforward_speed, InitFastforwardSpeed)
    /\ speed_request' = IF emulation_thread # None /\ tpc[emulation_thread] = "finished"
                           /\ speed_request.on = emulation_thread
                        THEN NoRequest
                        ELSE speed_request
    /\ current_action' = Dropped(current_action, InitCurrentAction)
    /\ stepMask' = Dropped(stepMask, 0)
    /\ last_set' = Dropped(last_set, 0)
    /\ backup' = Dropped(backup, NoBackup)
    /\ UNCHANGED <<held, pressed_keys, gui_action>>

\* EmulationThread.stop up to its wait(): self.running = False.  The handler
\* named by cont waits in stop_emulation.
ThreadStop(cont) ==
    /\ running' = [running EXCEPT ![emulation_thread] = FALSE]
    /\ gpc' = "stop_wait"
    /\ gcont' = cont

\* start_emulation without its test of self.rom_path.
HasRomAlways == TRUE

\* start_emulation: if not self.rom_path: (warning) return
HasRom == rom_path # None

\* stop_emulation without its test of self.emulation_thread.
HasThreadAlways == TRUE

\* stop_emulation: if self.emulation_thread:
HasThread == emulation_thread # None

\* start_emulation
StartEmulation ==
    /\ gpc = "idle"
    /\ HasRom => CanCreate
    /\ ev' = Ev("start", emulation_thread)
    /\ IF ~HasRom
       THEN UNCHANGED progVars
       ELSE IF is_emulation_running
       THEN /\ ThreadStop("start")
            /\ UNCHANGED <<tpc, env, paused, fastforward, coreVars, rom_path,
                           emulation_thread, state_slots, gop, grom, errq,
                           faulted, errs, lateUse, lateStep, sawPaused>>
            /\ UNCHANGED <<speedVars, inputVars, backup>>
       ELSE /\ CreateThread
            /\ DropThread
            /\ UNCHANGED <<env, created, closes, rom_path,
                           state_slots, gpc, gop, gcont, grom, errq,
                           faulted, errs, lateUse, lateStep>>
    /\ UNCHANGED <<slot_data, files, ncap, racing>>
    /\ last_op' = NoStoreOp
    /\ UNCHANGED <<fileVars, reply, tickVars, audioVars, soundVars, chunkVars>>
    /\ FpsWindowStart
    /\ UNCHANGED clockKept

\* stop_emulation, called from the menu
StopEmulation ==
    /\ gpc = "idle"
    /\ ev' = Ev("stop", emulation_thread)
    /\ IF ~HasThread
       THEN UNCHANGED progVars
       ELSE /\ ThreadStop("stop")
            /\ UNCHANGED <<tpc, env, paused, fastforward, coreVars, rom_path,
                           emulation_thread, state_slots, gop, grom, errq,
                           faulted, errs, lateUse, lateStep, sawPaused>>
            /\ UNCHANGED <<speedVars, inputVars>>
    /\ UNCHANGED storeVars
    /\ last_op' = NoStoreOp
    /\ UNCHANGED auxVars

\* handle_emulation_error, the slot of emulation_error: the message box, then
\* stop_emulation.
HandleEmulationError(t) ==
    /\ gpc = "idle"
    /\ errq[t] > 0
    /\ errq' = [errq EXCEPT ![t] = @ - 1]
    /\ ev' = Ev("error", t)
    /\ IF ~HasThread
       THEN UNCHANGED <<threadVars, coreVars, rom_path, emulation_thread,
                        state_slots, gpc, gop, gcont, grom,
                        faulted, errs, lateUse, lateStep, sawPaused>>
       ELSE /\ ThreadStop("error")
            /\ UNCHANGED <<tpc, env, paused, fastforward, coreVars, rom_path,
                           emulation_thread, state_slots, gop, grom,
                           faulted, errs, lateUse, lateStep, sawPaused>>
    /\ UNCHANGED speedVars
    /\ UNCHANGED inputVars
    /\ UNCHANGED storeVars
    /\ last_op' = NoStoreOp
    /\ UNCHANGED auxVars

\* clear_states leaving the slots as they are.
clear_states_kept == UNCHANGED <<state_slots, slot_data>>

\* clear_states: self.state_slots.clear()
clear_states ==
    /\ state_slots' = {}
    /\ slot_data' = [k \in Slots |-> NoData]

\* load_rom / load_recent_rom with file r chosen
LoadRom(r) ==
    /\ gpc = "idle"
    /\ CanCreate
    /\ ev' = Ev("load_rom", emulation_thread)
    /\ IF is_emulation_running
       THEN /\ ThreadStop("load")
            /\ grom' = r
            /\ UNCHANGED <<tpc, env, paused, fastforward, coreVars, rom_path,
                           emulation_thread, state_slots, gop, errq,
                           faulted, errs, lateUse, lateStep, sawPaused>>
            /\ UNCHANGED <<speedVars, inputVars, slot_data, backup>>
            /\ last_op' = NoStoreOp
       ELSE /\ rom_path' = r
            /\ clear_states
            /\ CreateThread
            /\ DropThread
            /\ UNCHANGED <<env, created, closes,
                           gpc, gop, gcont, grom, errq,
                           faulted, errs, lateUse, lateStep>>
            /\ last_op' = StoreOp("load_rom", 0, "ok", NoSave)
    /\ UNCHANGED <<files, ncap, racing>>
    /\ UNCHANGED <<fileVars, reply, tickVars, audioVars, soundVars, chunkVars>>
    /\ FpsWindowStart
    /\ UNCHANGED clockKept

\* stop_emulation: if self.audio_output: self.audio_output.stop(); if
\* self.audio_device: self.audio_device = None
audio_stop ==
    /\ audio_device' = "none"
    /\ UNCHANGED <<audio_enabled, audio_output, listen, audioq, played>>

\* A forced stop: stop_emulation does not wait for run() to return and closes
\* the thread's handle itself.
StopWaitReturnForced ==
    /\ gpc = "stop_wait"
    /\ gpc' = "idle"
    /\ gcont' = "none"
    /\ grom' = None
    /\ ev' = Ev(IF gcont = "start" THEN "restart" ELSE "stop_return", emulation_thread)
    /\ IF gcont \in {"start", "load"}
       THEN CreateThread
       ELSE emulation_thread' = None /\ UNCHANGED tpc
    /\ rom_path' = IF gcont = "load" THEN grom ELSE rom_path
    /\ IF gcont = "load" THEN clear_states ELSE UNCHANGED <<state_slots, slot_data>>
    /\ DropThread
    /\ closes' = [closes EXCEPT ![emulation_thread] =
                     IF env[emulation_thread] THEN Min(@ + 1, 2) ELSE @]
    /\ UNCHANGED <<env, created, gop, errq, faulted, errs, lateUse, lateStep>>
    /\ UNCHANGED <<files, ncap, racing>>
    /\ last_op' = IF gcont = "load" THEN StoreOp("load_rom", 0, "ok", NoSave)
                 ELSE NoStoreOp
    /\ audio_stop
    /\ UNCHANGED <<fileVars, reply, tickVars>>
    /\ UNCHANGED soundVars
    /\ FpsWindowStart
    /\ UNCHANGED clockKept
    /\ UNCHANGED chunkVars

\* The wait() in EmulationThread.stop returns; stop_emulation drops the thread
\* and the handler that called it carries on: load_rom assigns the ROM and
\* clears the slots, load_rom and start_emulation start a new thread.
StopWaitReturn ==
    /\ gpc = "stop_wait"
    /\ WaitReturns(emulation_thread)
    /\ gpc' = "idle"
    /\ gcont' = "none"
    /\ grom' = None
    /\ ev' = Ev(IF gcont = "start" THEN "restart" ELSE "stop_return", emulation_thread)
    /\ IF gcont \in {"start", "load"}
       THEN CreateThread
       ELSE emulation_thread' = None /\ UNCHANGED tpc
    /\ rom_path' = IF gcont = "load" THEN grom ELSE rom_path
    /\ IF gcont = "load" THEN clear_states ELSE UNCHANGED <<state_slots, slot_data>>
    /\ DropThread
    /\ UNCHANGED <<env, created, closes, gop, errq,
                   faulted, errs, lateUse, lateStep>>
    /\ UNCHANGED <<files, ncap, racing>>
    /\ last_op' = IF gcont = "load" THEN StoreOp("load_rom", 0, "ok", NoSave)
                 ELSE NoStoreOp
    /\ audio_stop
    /\ UNCHANGED <<fileVars, reply, tickVars>>
    /\ UNCHANGED soundVars
    /\ FpsWindowStart
    /\ UNCHANGED clockKept
    /\ UNCHANGED chunkVars

\* pause_emulation
PauseEmulation ==
    /\ gpc = "idle"
    /\ ev' = Ev("pause", emulation_thread)
    /\ paused' = IF is_emulation_running
                 THEN [paused EXCEPT ![emulation_thread] = TRUE]
                 ELSE paused
    /\ UNCHANGED <<tpc, env, running, fastforward, coreVars, guiVars,
                   faulted, errs, lateUse, lateStep, sawPaused>>
    /\ UNCHANGED speedVars
    /\ UNCHANGED inputVars
    /\ UNCHANGED storeVars
    /\ last_op' = NoStoreOp
    /\ UNCHANGED auxVars

\* resume_emulation
ResumeEmulation ==
    /\ gpc = "idle"
    /\ ev' = Ev("resume", emulation_thread)
    /\ IF is_emulation_running
       THEN /\ paused' = [paused EXCEPT ![emulation_thread] = FALSE]
            /\ sawPaused' = [sawPaused EXCEPT ![emulation_thread] = FALSE]
       ELSE UNCHANGED <<paused, sawPaused>>
    /\ UNCHANGED <<tpc, env, running, fastforward, coreVars, guiVars,
                   faulted, errs, lateUse, lateStep>>
    /\ UNCHANGED speedVars
    /\ UNCHANGED inputVars
    /\ UNCHANGED storeVars
    /\ last_op' = NoStoreOp
    /\ UNCHANGED auxVars

\* toggle_fastforward
ToggleFastforward ==
    /\ gpc = "idle"
    /\ ev' = Ev("toggle_ff", emulation_thread)
    /\ fastforward' = IF is_emulation_running
                      THEN [fastforward EXCEPT ![emulation_thread] = ~@]
                      ELSE fastforward
    /\ UNCHANGED <<tpc, env, running, paused, coreVars, guiVars,
                   faulted, errs, lateUse, lateStep, sawPaused>>
    /\ UNCHANGED speedVars
    /\ UNCHANGED inputVars
    /\ UNCHANGED storeVars
    /\ last_op' = NoStoreOp
    /\ UNCHANGED auxVars

(***************************************************************************)
(* Handlers that call into the core through self.emulation_thread.env.     *)
(* A handler tests what it tests (gpc "checked"), then reads env and the   *)
(* call begins (gpc "in_call"), then the call returns; no lock is taken,   *)
(* so the loop thread runs between these steps.                            *)
(***************************************************************************)

\* The handler passed its tests and is about to read env and call op.
BeginOp(op, k) ==
    /\ gpc' = "checked"
    /\ gop' = Op(op, k)

\* reset_emulation: if self.emulation_thread and self.emulation_thread.env
ResetEmulation ==
    /\ gpc = "idle"
    /\ ev' = Ev("reset", emulation_thread)
    /\ IF emulation_thread # None /\ env[emulation_thread]
       THEN BeginOp("reset", 0)
       ELSE UNCHANGED <<gpc, gop>>
    /\ UNCHANGED <<threadVars, coreVars, rom_path, emulation_thread, state_slots,
                   gcont, grom, errq, faulted, errs, lateUse, lateStep, sawPaused>>
    /\ UNCHANGED speedVars
    /\ UNCHANGED inputVars
    /\ UNCHANGED storeVars
    /\ last_op' = NoStoreOp
    /\ UNCHANGED auxVars

\* set_audio_volume: env.set_master_volume when a thread with an env exists
SetAudioVolume ==
    /\ gpc = "idle"
    /\ ev' = Ev("volume", emulation_thread)
    /\ IF emulation_thread # None /\ env[emulation_thread]
       THEN BeginOp("set_master_volume", 0)
       ELSE UNCHANGED <<gpc, gop>>
    /\ UNCHANGED <<threadVars, coreVars, rom_path, emulation_thread, state_slots,
                   gcont, grom, errq, faulted, errs, lateUse, lateStep, sawPaused>>
    /\ UNCHANGED speedVars
    /\ UNCHANGED inputVars
    /\ UNCHANGED storeVars
    /\ last_op' = NoStoreOp
    /\ UNCHANGED auxVars

\* set_audio_enabled: self.audio_enabled = enabled, then env.set_audio_enabled
\* when a thread with an env exists
SetAudioEnabled(enabled) ==
    /\ gpc = "idle"
    /\ ev' = Ev("audio_enabled", emulation_thread)
    /\ IF emulation_thread # None /\ env[emulation_thread]
       THEN BeginOp("set_audio_enabled", 0)
       ELSE UNCHANGED <<gpc, gop>>
    /\ UNCHANGED <<threadVars, coreVars, rom_path, emulation_thread, state_slots,
                   gcont, grom, errq, faulted, errs, lateUse, lateStep, sawPaused>>
    /\ UNCHANGED speedVars
    /\ UNCHANGED inputVars
    /\ UNCHANGED storeVars
    /\ last_op' = NoStoreOp
    /\ audio_enabled' = enabled
    /\ UNCHANGED <<fileVars, reply, tickVars>>
    /\ UNCHANGED <<audio_output, audio_device, listen, audioq, played>>
    /\ UNCHANGED soundVars
    /\ UNCHANGED clockVars
    /\ UNCHANGED chunkVars

\* save_state(k): returns when no emulation is running, else env._backup()
SaveState(k) ==
    /\ gpc = "idle"
    /\ ncap < MaxCaptures
    /\ ev' = Ev("save", emulation_thread)
    /\ IF is_emulation_running
       THEN BeginOp("backup", k) /\ last_op' = NoStoreOp
       ELSE /\ last_op' = StoreOp("save", k, "refused", NoSave)
            /\ UNCHANGED <<gpc, gop>>
    /\ UNCHANGED <<threadVars, coreVars, rom_path, emulation_thread, state_slots,
                   gcont, grom, errq, faulted, errs, lateUse, lateStep, sawPaused>>
    /\ UNCHANGED <<speedVars, inputVars, slot_data, files, backup, ncap, racing>>
    /\ UNCHANGED auxVars

\* save_state_to_file_dialog: a file is chosen (or the dialog is cancelled),
\* then env._backup(); the snapshot goes to slot 0.
SaveStateToFileDialog ==
    /\ gpc = "idle"
    /\ ncap < MaxCaptures
    /\ ev' = Ev("save_file", emulation_thread)
    /\ \E chosen \in BOOLEAN :
        IF ~is_emulation_running
        THEN /\ last_op' = StoreOp("save_file", 0, "refused", NoSave)
             /\ UNCHANGED <<gpc, gop>>
        ELSE IF ~chosen
        THEN /\ last_op' = StoreOp("save_file", 0, "cancelled", NoSave)
             /\ UNCHANGED <<gpc, gop>>
        ELSE BeginOp("backup", 0) /\ last_op' = NoStoreOp
    /\ UNCHANGED <<threadVars, coreVars, rom_path, emulation_thread, state_slots,
                   gcont, grom, errq, faulted, errs, lateUse, lateStep, sawPaused>>
    /\ UNCHANGED <<speedVars, inputVars, slot_data, files, backup, ncap, racing>>
    /\ UNCHANGED auxVars

\* load_state(k): env._restore() when slot k is in state_slots and the thread
\* has an env ("State loaded" is shown all the same when it has none);
\* otherwise a message and no call.
LoadState(k) ==
    /\ gpc = "idle"
    /\ ev' = Ev("load", emulation_thread)
    /\ IF ~is_emulation_running
       THEN /\ last_op' = StoreOp("load", k, "refused", NoSave)
            /\ UNCHANGED <<gpc, gop>>
       ELSE IF k \notin state_slots
       THEN /\ last_op' = StoreOp("load", k, "absent", NoSave)
            /\ UNCHANGED <<gpc, gop>>
       ELSE IF env[emulation_thread]
       THEN BeginOp("restore", k) /\ last_op' = NoStoreOp
       ELSE /\ last_op' = StoreOp("load", k, "ok", NoSave)
            /\ UNCHANGED <<gpc, gop>>
    /\ UNCHANGED <<threadVars, coreVars, rom_path, emulation_thread, state_slots,
                   gcont, grom, errq, faulted, errs, lateUse, lateStep, sawPaused>>
    /\ UNCHANGED <<speedVars, inputVars, slot_data, files, backup, ncap, racing>>
    /\ UNCHANGED auxVars

\* load_state_from_file_dialog storing the loaded record in every slot.
StoreLoadedAll(data) ==
    /\ state_slots' = Slots
    /\ slot_data' = [k \in Slots |-> data]

\* load_state_from_file_dialog: self.state_slots[0] = state_data
StoreLoaded(data) ==
    /\ state_slots' = state_slots \cup {0}
    /\ slot_data' = [slot_data EXCEPT ![0] = data]

\* load_state_from_file_dialog: the file was read and names another ROM than
\* the active one, so the "ROM Mismatch" question is asked.
Asked(f, outcome) ==
    /\ files[f] # NoData
    /\ files[f].rom # rom_path
    /\ outcome \in {"read", "declined"}

\* load_state_from_file_dialog going on whatever the answer to the question.
MayLoadUnasked(f, outcome) ==
    /\ files[f] # NoData
    /\ outcome \in {"read", "declined"}

\* load_state_from_file_dialog goes on to store the record: the file was
\* read and, if the question was asked, the answer was Yes.
MayLoad(f, outcome) ==
    /\ files[f] # NoData
    /\ outcome = "read"

\* load_state_from_file_dialog with file f chosen, or the dialog cancelled.
\* The outcomes: the dialog is cancelled; reading the file fails (it always
\* does for a file that does not exist) and load_state_from_file raises; the
\* file names another ROM and the user declines; the file is read (and a ROM
\* mismatch confirmed), the snapshot is stored in slot 0, then env._restore()
\* if the thread has an env.
LoadStateFromFileDialog ==
    /\ gpc = "idle"
    /\ ev' = Ev("load_file", emulation_thread)
    /\ IF ~is_emulation_running
       THEN /\ last_op' = StoreOp("load_file", 0, "refused", NoSave)
            /\ reply' = "none"
            /\ UNCHANGED <<state_slots, slot_data, gpc, gop>>
       ELSE \E f \in FileNames, outcome \in {"cancelled", "failed", "declined", "read"} :
            /\ reply' = IF ~Asked(f, outcome) THEN "none"
                         ELSE IF outcome = "declined" THEN "no" ELSE "yes"
            /\ IF MayLoad(f, outcome)
               THEN /\ StoreLoaded(files[f])
                    /\ IF env[emulation_thread]
                       THEN /\ BeginOp("restore", 0)
                            /\ last_op' = StoreOp("load_file", 0, "begun", NoSave)
                       ELSE /\ last_op' = StoreOp("load_file", 0, "ok", NoSave)
                            /\ UNCHANGED <<gpc, gop>>
               ELSE /\ outcome = "declined" => Asked(f, outcome)
                    /\ last_op' = StoreOp("load_file", 0,
                                          IF outcome = "read" THEN "failed" ELSE outcome,
                                          NoSave)
                    /\ UNCHANGED <<state_slots, slot_data, gpc, gop>>
    /\ UNCHANGED <<threadVars, coreVars, rom_path, emulation_thread,
                   gcont, grom, errq, faulted, errs, lateUse, lateStep, sawPaused>>
    /\ UNCHANGED <<speedVars, inputVars, files, backup, ncap, racing>>
    /\ UNCHANGED <<fileVars, tickVars, audioVars>>
    /\ UNCHANGED soundVars
    /\ UNCHANGED clockVars
    /\ UNCHANGED chunkVars

\* The core's restore primitive, called by handler op for slot k: it puts back
\* the handle's native backup b, whatever save made it.  The core then holds
\* that save's state exactly if the backup is not torn and no core call of the
\* loop ran beside the restore.
native_restore(op, k, b, torn) ==
    [op |-> op, slot |-> k, result |-> "ok", save |-> b.save,
     exact |-> (b.save # NoSave /\ ~b.torn /\ ~torn)]

\* The handler of the core operation in progress, as last_op names it.
HandlerOf(op) ==
    IF op.op = "backup" THEN (IF op.slot = 0 THEN "save_file" ELSE "save")
    ELSE IF op.op = "restore" THEN (IF op.slot = 0 THEN "load_file" ELSE "load")
    ELSE "none"

\* self.emulation_thread.env.<op>(...): env is read and the call begins.  A
\* None env raises AttributeError and the handler ends (the save and load
\* handlers catch it and show it); a handle that was already closed is called
\* all the same.
CoreCallBegin ==
    /\ gpc = "checked"
    /\ ev' = Ev("call", emulation_thread)
    /\ IF env[emulation_thread]
       THEN /\ gpc' = "in_call"
            /\ lateUse' = (lateUse \/ closes[emulation_thread] > 0)
            /\ racing' = (gop.op \in {"backup", "restore"}
                            /\ InLoopCoreCall(emulation_thread))
            /\ UNCHANGED gop /\ last_op' = NoStoreOp
       ELSE /\ gpc' = "idle"
            /\ gop' = NoOp
            /\ last_op' = IF HandlerOf(gop) = "none" THEN NoStoreOp
                           ELSE StoreOp(HandlerOf(gop), gop.slot, "failed", NoSave)
            /\ UNCHANGED <<lateUse, racing>>
    /\ UNCHANGED <<threadVars, coreVars, rom_path, emulation_thread, state_slots,
                   gcont, grom, errq, faulted, errs, lateStep, sawPaused>>
    /\ UNCHANGED <<speedVars, inputVars, slot_data, files, backup, ncap>>
    /\ UNCHANGED auxVars

\* The core call returns (or raises, and the handler ends).  _backup() makes
\* the handle's native backup, the ncap-th of the run, and save_state goes on
\* to capture_emulator_state; _restore() puts the handle's native backup
\* back; reset clears the done flag.  Nothing orders these calls with the
\* loop's: a backup or restore that ran beside a step or reset of the loop
\* may have copied a state the loop was changing.
CoreCallEnd ==
    /\ gpc = "in_call"
    /\ ev' = Ev("call_end", emulation_thread)
    /\ racing' = FALSE
    /\ \E ok \in BOOLEAN, torn \in (IF racing THEN BOOLEAN ELSE {FALSE}) :
        /\ IF ok /\ gop.op = "backup"
           THEN gpc' = "capture" /\ UNCHANGED gop
           ELSE gpc' = "idle" /\ gop' = NoOp
        /\ done' = IF ok /\ gop.op = "reset"
                   THEN [done EXCEPT ![emulation_thread] = FALSE]
                   ELSE done
        /\ IF ok /\ gop.op = "backup"
           THEN /\ ncap' = ncap + 1
                /\ backup' = [backup EXCEPT ![emulation_thread] =
                                 [save |-> ncap + 1, torn |-> torn]]
                /\ last_op' = NoStoreOp
           ELSE /\ UNCHANGED <<ncap, backup>>
                /\ last_op' =
                     IF HandlerOf(gop) = "none" THEN NoStoreOp
                     ELSE IF ~ok THEN StoreOp(HandlerOf(gop), gop.slot, "failed", NoSave)
                     ELSE native_restore(HandlerOf(gop), gop.slot,
                                         backup[emulation_thread], torn)
    /\ UNCHANGED <<threadVars, created, closes, rom_path, emulation_thread,
                   state_slots, gcont, grom, errq,
                   faulted, errs, lateUse, lateStep, sawPaused>>
    /\ UNCHANGED <<speedVars, inputVars, slot_data, files>>
    /\ UNCHANGED auxVars

\* save_state_to_file pickles the serializable fields of the snapshot: the
\* record in the file is tied to no handle.
Serialized(data) == [data EXCEPT !.by = None]

\* save_state_to_file(data, f): open(f, 'wb') and pickle.dump.  The file is
\* "written"; or open raises and the file is as it was ("unopened"); or the
\* dump raises after open truncated the file, which then holds no record
\* ("truncated").
WriteOutcomes == {"written", "unopened", "truncated"}
save_state_to_file(data, f, out) ==
    files' = CASE out = "written" -> [files EXCEPT ![f] = Serialized(data)]
               [] out = "truncated" -> [files EXCEPT ![f] = NoData]
               [] OTHER -> files

\* save_state storing the snapshot as the only slot, and writing its file.
StoreOnlyThenWrite(k, data, out) ==
    /\ state_slots' = {k}
    /\ slot_data' = [j \in Slots |-> IF j = k THEN data ELSE NoData]
    /\ save_state_to_file(data, SlotFile(rom_path, k), out)

\* save_state stores the snapshot in slot k and then writes its file.
StoreThenWrite(k, data, out) ==
    /\ state_slots' = state_slots \cup {k}
    /\ slot_data' = [slot_data EXCEPT ![k] = data]
    /\ save_state_to_file(data, SlotFile(rom_path, k), out)

\* capture_emulator_state (raises when the thread has no env), then the
\* snapshot is stored and written: save_state stores slot k before it writes
\* the file, save_state_to_file_dialog stores slot 0 after the write succeeded.
CaptureState ==
    /\ gpc = "capture"
    /\ ev' = Ev("capture", emulation_thread)
    /\ gpc' = "idle"
    /\ gop' = NoOp
    /\ \E out \in WriteOutcomes :
        LET data == [save |-> ncap, by |-> emulation_thread, rom |-> rom_path]
        IN IF ~env[emulation_thread]
           THEN /\ last_op' = StoreOp(HandlerOf(gop), gop.slot, "failed", NoSave)
                /\ UNCHANGED <<state_slots, slot_data, files>>
           ELSE /\ last_op' = StoreOp(HandlerOf(gop), gop.slot,
                                      IF out = "written" THEN "ok" ELSE "failed", NoSave)
                /\ IF gop.slot # 0
                   THEN StoreThenWrite(gop.slot, data, out)
                   ELSE /\ save_state_to_file(data, UserFile, out)
                        /\ IF out = "written"
                           THEN /\ state_slots' = state_slots \cup {0}
                                /\ slot_data' = [slot_data EXCEPT ![0] = data]
                           ELSE UNCHANGED <<state_slots, slot_data>>
    /\ UNCHANGED <<threadVars, coreVars, rom_path, emulation_thread,
                   gcont, grom, errq, faulted, errs, lateUse, lateStep, sawPaused>>
    /\ UNCHANGED <<speedVars, inputVars, backup, ncap, racing>>
    /\ UNCHANGED auxVars

\* clear_states, from the state manager dialog
ClearStates ==
    /\ gpc = "idle"
    /\ ev' = Ev("clear", emulation_thread)
    /\ clear_states
    /\ UNCHANGED <<threadVars, coreVars, rom_path, emulation_thread, gpc, gop,
                   gcont, grom, errq, faulted, errs, lateUse, lateStep, sawPaused>>
    /\ UNCHANGED <<speedVars, inputVars, files, backup, ncap, racing>>
    /\ last_op' = StoreOp("clear", 0, "ok", NoSave)
    /\ UNCHANGED auxVars

\* What a reader of the array that frame_ready carried finds in it.  The
\* signal carries the object env.screen itself: a core that renders into one
\* buffer shows the reader the screen as it is now (or, while a step is
\* rendering, a mix of two screens), a core that makes a new array for every
\* step shows it the screen as it was emitted.
Torn == MaxTicks + 1
screen_read(at, cur, stepping) ==
    {at, cur} \cup (IF stepping THEN {Torn} ELSE {})

\* GameDisplayWidget.update_frame, run by the GUI thread for the oldest
\* frame_ready signal queued: screen_data.astype('uint8').tobytes() reads the
\* array, the image made of it is displayed.
UpdateFrame ==
    /\ gpc = "idle"
    /\ frameq # <<>>
    /\ LET e == Head(frameq) IN
        \E seen \in screen_read(e.at, screen[e.of], tpc[e.of] = "in_step") :
            shown' = [at |-> e.at, seen |-> seen, shown |-> TRUE]
    /\ frameq' = Tail(frameq)
    /\ ev' = Ev("update_frame", emulation_thread)
    /\ UNCHANGED <<threadVars, coreVars, guiVars, faulted, errs, lateUse, lateStep,
                   sawPaused>>
    /\ UNCHANGED <<speedVars, inputVars, storeVars>>
    /\ last_op' = NoStoreOp
    /\ UNCHANGED <<audioVars, fileVars, reply, follow, count, frame_count, screen>>
    /\ UNCHANGED soundVars
    /\ UNCHANGED clockVars
    /\ UNCHANGED chunkVars

\* play_audio without its gate.
play_audio_ungated == TRUE

\* play_audio goes on past its first test:
\* if not self.audio_enabled or not self.audio_output: return
play_audio_gate == audio_enabled /\ audio_output

\* self.audio_device after a chunk, for a device that stays bound once start()
\* was called, whatever it returned.
BoundAfterLatched(out) == "open"

\* self.audio_device after a chunk: the assignment of line 978 is not made
\* when audio_output.start() raises, and binds None when start() returns no
\* device; otherwise the device start() returned, now or for an earlier
\* chunk, is bound.
BoundAfter(out) ==
    IF out \in {"open_raises", "open_none"} THEN "none" ELSE "open"

\* How a chunk may fare past the gate: audio_output.start() raises or returns
\* no device (only when no device is bound), or a write raises, or all goes
\* well.
PlayOutcomes ==
    {"ok", "write_raises"} \cup
        (IF audio_device = "none" THEN {"open_raises", "open_none"} ELSE {})

\* play_audio, the slot of audio_ready, run by the GUI thread for a queued
\* chunk.  Every exception is caught and printed (except Exception).
PlayAudio ==
    /\ gpc = "idle"
    /\ audioq > 0
    /\ audioq' = audioq - 1
    /\ ev' = Ev("play_audio", emulation_thread)
    /\ IF ~play_audio_gate
       THEN /\ played' = [gate |-> "dropped", open |-> FALSE, write |-> FALSE,
                           failed |-> FALSE]
            /\ UNCHANGED audio_device
       ELSE \E out \in PlayOutcomes :
            /\ played' = [gate |-> "passed",
                           open |-> (audio_device = "none"),
                           write |-> (out \in {"ok", "write_raises"}),
                           failed |-> (out # "ok")]
            /\ audio_device' = BoundAfter(out)
    /\ UNCHANGED <<threadVars, coreVars, guiVars, faulted, errs, lateUse, lateStep,
                   sawPaused>>
    /\ UNCHANGED <<speedVars, inputVars, storeVars>>
    /\ last_op' = NoStoreOp
    /\ UNCHANGED <<fileVars, reply, tickVars, audio_enabled, audio_output, listen>>
    /\ UNCHANGED soundVars
    /\ UNCHANGED clockVars
    /\ UNCHANGED chunkVars

\* The handlers the user or the event loop may run, and their continuations.
Gui ==
    \/ StartEmulation
    \/ StopEmulation
    \/ \E t \in Threads : HandleEmulationError(t)
    \/ \E r \in Roms : LoadRom(r)
    \/ StopWaitReturn
    \/ PauseEmulation
    \/ ResumeEmulation
    \/ ToggleFastforward
    \/ ResetEmulation
    \/ SetAudioVolume
    \/ \E enabled \in BOOLEAN : SetAudioEnabled(enabled)
    \/ CoreCallBegin
    \/ CoreCallEnd

Next == Gui \/ \E t \in Threads : Run(t)

Spec == Init /\ [][Next]_vars

(***************************************************************************)
(* Save states: the save and load handlers over the sessions' life cycle.  *)
(***************************************************************************)
Store ==
    \/ \E k \in Slots \ {0} : SaveState(k)
    \/ SaveStateToFileDialog
    \/ \E k \in Slots \ {0} : LoadState(k)
    \/ LoadStateFromFileDialog
    \/ CoreCallBegin
    \/ CoreCallEnd
    \/ CaptureState
    \/ ClearStates

(***************************************************************************)
(* Fastforward speed: the handlers of the speed menu, and the interval the *)
(* loop paces its ticks with.                                              *)
(***************************************************************************)

\* Largest argument of set_fastforward_speed, in units of 1/FloatScale.
MaxSpeed == 4
\* The arguments of set_fastforward_speed: NaN, and -1/FloatScale .. MaxSpeed/FloatScale.
SpeedArgs == {NaN} \cup {Float(n) : n \in -1..MaxSpeed}

\* EmulationThread.set_fastforward_speed without the floor.
set_fastforward_speed_unclamped(t, speed) ==
    fastforward_speed' = [fastforward_speed EXCEPT ![t] = speed]

\* EmulationThread.set_fastforward_speed: self.fastforward_speed = max(1.0, speed)
set_fastforward_speed(t, speed) ==
    fastforward_speed' = [fastforward_speed EXCEPT ![t] = PyMax(Float(FloatScale), speed)]

\* NESendoGUI.set_fastforward_speed
SetFastforwardSpeed(speed) ==
    /\ gpc = "idle"
    /\ ev' = Ev("set_speed", emulation_thread)
    /\ IF is_emulation_running
       THEN /\ set_fastforward_speed(emulation_thread, speed)
            /\ speed_request' = [on |-> emulation_thread, arg |-> speed]
       ELSE UNCHANGED speedVars
    /\ UNCHANGED <<threadVars, coreVars, guiVars,
                   faulted, errs, lateUse, lateStep, sawPaused>>
    /\ UNCHANGED inputVars
    /\ UNCHANGED storeVars
    /\ last_op' = NoStoreOp
    /\ UNCHANGED auxVars

\* The handlers that start and end sessions, and the loop threads.
Session ==
    \/ StartEmulation
    \/ StopEmulation
    \/ \E t \in Threads : HandleEmulationError(t)
    \/ \E r \in Roms : LoadRom(r)
    \/ StopWaitReturn
    \/ \E t \in Threads : Run(t)

NextSpeed ==
    \/ Session
    \/ ToggleFastforward
    \/ \E speed \in SpeedArgs : SetFastforwardSpeed(speed)

\* The sessions with the speed menu in use.
SpecSpeed == Init /\ [][NextSpeed]_vars

NextStore == Session \/ Store

SpecStore == Init /\ [][NextStore]_vars

(***************************************************************************)
(* The keyboard: key events, the held-key set and the action mask.         *)
(***************************************************************************)

\* init_keymapping: self.key_mapping, by the name of the Qt key
key_mapping ==
    [W |-> 16, A |-> 64, S |-> 32, D |-> 128, O |-> 2, P |-> 1, Return |-> 8, Space |-> 4]
\* A key that is no entry of the mapping table.
UnmappedKey == "Q"
AllKeys == DOMAIN key_mapping \cup {UnmappedKey}

\* Number of mapped keys the sessions' key events are drawn from.
MaxKeys == 2
KeyOrder == <<"W", "A", "S", "D", "O", "P", "Return", "Space">>
ExercisedKeys == {KeyOrder[i] : i \in 1..Min(MaxKeys, Len(KeyOrder))} \cup {UnmappedKey}

\* a | b on non-negative integers
RECURSIVE BitOr(_, _)
BitOr(a, b) ==
    IF a = 0 THEN b
    ELSE IF b = 0 THEN a
    ELSE (IF a % 2 = 1 \/ b % 2 = 1 THEN 1 ELSE 0) + 2 * BitOr(a \div 2, b \div 2)

\* update_action: action = 0; for key in pressed_keys: if key in key_mapping:
\* action |= key_mapping[key]
RECURSIVE ActionOf(_)
ActionOf(keys) ==
    IF keys = {} THEN 0
    ELSE LET key == CHOOSE k \in keys : TRUE
         IN BitOr(IF key \in DOMAIN key_mapping THEN key_mapping[key] ELSE 0,
                  ActionOf(keys \ {key}))

\* A write of current_action that is not atomic: the low four bits of the
\* new value are stored, the high bits still are the old ones.
set_action_torn(t, action) ==
    /\ current_action' = [current_action EXCEPT ![t] = ((@ \div 16) * 16) + (action % 16)]
    /\ last_set' = [last_set EXCEPT ![t] = action]

\* EmulationThread.set_action: self.current_action = action
set_action(t, action) ==
    /\ current_action' = [current_action EXCEPT ![t] = action]
    /\ last_set' = [last_set EXCEPT ![t] = action]

\* update_action, with pressed_keys as the handler left it
update_action(keys) ==
    /\ gui_action' = ActionOf(keys)
    /\ IF emulation_thread # None
       THEN set_action(emulation_thread, ActionOf(keys))
       ELSE UNCHANGED <<current_action, last_set>>

\* A handler that takes every key for a game control.
IsMappedAlways(key) == TRUE

\* keyPressEvent / keyReleaseEvent: if key in self.key_mapping
IsMapped(key) == key \in DOMAIN key_mapping

\* keyPressEvent: the key goes down and the window handles the event.
KeyPress(key) ==
    /\ gpc = "idle"
    /\ key \notin held
    /\ held' = held \cup {key}
    /\ ev' = Ev("key_press", emulation_thread)
    /\ IF emulation_thread # None /\ IsRunning(emulation_thread) /\ IsMapped(key)
       THEN /\ pressed_keys' = pressed_keys \cup {key}
            /\ update_action(pressed_keys')
       ELSE UNCHANGED <<pressed_keys, gui_action, current_action, last_set>>
    /\ UNCHANGED <<threadVars, coreVars, guiVars, speedVars, stepMask,
                   faulted, errs, lateUse, lateStep, sawPaused>>
    /\ UNCHANGED storeVars
    /\ last_op' = NoStoreOp
    /\ UNCHANGED auxVars

\* keyReleaseEvent: the key goes up and the window handles the event.
KeyRelease(key) ==
    /\ gpc = "idle"
    /\ key \in held
    /\ held' = held \ {key}
    /\ ev' = Ev("key_release", emulation_thread)
    /\ IF emulation_thread # None /\ IsRunning(emulation_thread) /\ IsMapped(key)
       THEN /\ pressed_keys' = pressed_keys \ {key}
            /\ update_action(pressed_keys')
       ELSE UNCHANGED <<pressed_keys, gui_action, current_action, last_set>>
    /\ UNCHANGED <<threadVars, coreVars, guiVars, speedVars, stepMask,
                   faulted, errs, lateUse, lateStep, sawPaused>>
    /\ UNCHANGED storeVars
    /\ last_op' = NoStoreOp
    /\ UNCHANGED auxVars

NextKeys ==
    \/ Session
    \/ \E key \in ExercisedKeys : KeyPress(key)
    \/ \E key \in ExercisedKeys : KeyRelease(key)

\* The sessions with the keyboard in use.
SpecKeys == Init /\ [][NextKeys]_vars

\* A session in its loop: a ROM was loaded, the first thread constructed its
\* handle, reset it and is at the loop test; no key is down.
InitLoop ==
    /\ tpc = [t \in Threads |-> IF t = 1 THEN "loop_test" ELSE "unborn"]
    /\ env = [t \in Threads |-> t = 1]
    /\ running = [t \in Threads |-> t = 1]
    /\ paused = [t \in Threads |-> InitPaused]
    /\ fastforward = [t \in Threads |-> InitFastforward]
    /\ created = [t \in Threads |-> t = 1]
    /\ closes = [t \in Threads |-> 0]
    /\ done = [t \in Threads |-> FALSE]
    /\ rom_path = 1
    /\ emulation_thread = 1
    /\ state_slots = {}
    /\ gpc = "idle"
    /\ gop = NoOp
    /\ gcont = "none"
    /\ grom = None
    /\ errq = [t \in Threads |-> 0]
    /\ ev = Ev("init", None)
    /\ faulted = [t \in Threads |-> "no"]
    /\ errs = [t \in Threads |-> 0]
    /\ lateUse = FALSE
    /\ lateStep = [t \in Threads |-> FALSE]
    /\ sawPaused = [t \in Threads |-> FALSE]
    /\ fastforward_speed = [t \in Threads |-> InitFastforwardSpeed]
    /\ speed_request = NoRequest
    /\ held = {}
    /\ pressed_keys = {}
    /\ gui_action = 0
    /\ current_action = [t \in Threads |-> InitCurrentAction]
    /\ stepMask = [t \in Threads |-> 0]
    /\ last_set = [t \in Threads |-> 0]
    /\ slot_data = [k \in Slots |-> NoData]
    /\ backup = [t \in Threads |-> NoBackup]
    /\ ncap = 0
    /\ racing = FALSE
    /\ last_op = NoStoreOp

InitMask == InitLoop /\ NoFiles /\ AuxIdle

NextMask ==
    \/ \E key \in AllKeys : KeyPress(key)
    \/ \E key \in AllKeys : KeyRelease(key)

\* The key events of one session, over the whole keyboard.
SpecMask == InitMask /\ [][NextMask]_vars

(***************************************************************************)
(* Save states in a session in its loop, with a state file on disk that an *)
(* earlier run of the program wrote for another ROM.                       *)
(***************************************************************************)
InitForeign ==
    /\ InitLoop
    /\ files = [f \in FileNames |-> IF f = UserFile THEN ForeignRecord ELSE NoData]
    /\ AuxIdle

NextForeign == Store \/ \E t \in Threads : RunLoop(t)

SpecForeign == InitForeign /\ [][NextForeign]_vars

(***************************************************************************)
(* The quick-save slots over a change of ROM: the sessions, with a second  *)
(* ROM to load, and the slot handlers.                                     *)
(***************************************************************************)
NextRoms ==
    \/ StartEmulation
    \/ StopEmulation
    \/ \E r \in RomPaths : LoadRom(r)
    \/ StopWaitReturn
    \/ \E t \in Threads : Run(t)
    \/ \E k \in Slots \ {0} : SaveState(k)
    \/ CoreCallBegin
    \/ CoreCallEnd
    \/ CaptureState
    \/ ClearStates

SpecRoms == Init /\ [][NextRoms]_vars

(***************************************************************************)
(* The ticks of one session in its loop, followed step by step, and the    *)
(* frames the GUI thread displays.                                         *)
(***************************************************************************)
InitTicks ==
    /\ InitLoop
    /\ NoFiles
    /\ FileIdle
    /\ reply = "none"
    /\ TicksIdle
    /\ AudioIdle
    /\ Silent
    /\ WriteIdle
    /\ Untimed
    /\ follow = [t \in Threads |-> IF tpc[t] = "unborn" THEN 0 ELSE MaxTicks]

NextTicks ==
    \/ \E t \in Threads : RunLoop(t)
    \/ UpdateFrame
    \/ PauseEmulation
    \/ ResumeEmulation
    \/ ToggleFastforward
    \/ \E key \in ExercisedKeys : KeyPress(key)
    \/ \E key \in ExercisedKeys : KeyRelease(key)

SpecTicks == InitTicks /\ [][NextTicks]_vars

\* ---- the loop and its audio: ticks and samples are both followed ----
InitSound ==
    /\ InitLoop
    /\ NoFiles
    /\ FileIdle
    /\ reply = "none"
    /\ TicksIdle
    /\ AudioUnbound
    /\ audio_output = TRUE
    /\ Silent
    /\ WriteIdle
    /\ Untimed
    /\ follow = [t \in Threads |-> IF tpc[t] = "unborn" THEN 0 ELSE MaxTicks]
    /\ listen = [t \in Threads |-> IF tpc[t] = "unborn" THEN 0 ELSE MaxChunks]

NextSound ==
    \/ \E t \in Threads : RunLoop(t)
    \/ PlayAudio
    \/ PauseEmulation
    \/ ResumeEmulation

SpecSound == InitSound /\ [][NextSound]_vars

\* ---- the loop and the clock ----
\* Number of frame intervals the clock runs for.
MaxFrames == 3
\* The clock advances by a part of the frame interval.
Quantum == FrameDuration \div MaxSpeed
PaceHorizon == MaxFrames * FrameDuration
\* Thirty frames and one more, each a microsecond late at most.
FpsHorizon == (FpsEvery + 1) * (FrameDuration + 1)
Horizon == IF PaceHorizon > FpsHorizon THEN PaceHorizon ELSE FpsHorizon
MaxFollow == IF MaxTicks > FpsEvery + 1 THEN MaxTicks ELSE FpsEvery + 1

\* Time passes.
Advance(dt, limit) ==
    /\ Timed
    /\ now + dt <= limit
    /\ now' = now + dt
    /\ ev' = Ev("time", None)
    /\ last_op' = NoStoreOp
    /\ UNCHANGED <<threadVars, coreVars, guiVars, faulted, errs, lateUse, lateStep,
                   sawPaused, speedVars, inputVars, storeVars>>
    /\ UNCHANGED <<fileVars, reply, tickVars, audioVars, soundVars>>
    /\ UNCHANGED <<current_time, last_frame_time, fps_start_time, current_fps,
                   fps_emitted>>
    /\ UNCHANGED chunkVars

\* A session in its loop at time 0, whose thread has just read the clock for
\* last_frame_time.
InitPace ==
    /\ InitLoop
    /\ NoFiles
    /\ FileIdle
    /\ reply = "none"
    /\ TicksIdle
    /\ Unfollowed
    /\ AudioIdle
    /\ Silent
    /\ WriteIdle
    /\ now = 0
    /\ ClockIdle

NextPace ==
    \/ \E t \in Threads : RunLoop(t)
    \/ ToggleFastforward
    \/ \E speed \in SpeedArgs : SetFastforwardSpeed(speed)
    \/ Advance(Quantum, PaceHorizon)

SpecPace == InitPace /\ [][NextPace]_vars

\* ---- the loop at the 1/60 s cadence ----
\* The loop sleeps until the next frame is due: the clock advances by a frame
\* interval, or a microsecond more, while every thread is at the top of its
\* loop with no tick due.
Cadence(dt) ==
    /\ \A t \in Threads :
           IsRunning(t) => tpc[t] = "loop_test" /\ now - last_frame_time[t] < FrameDuration
    /\ Advance(dt, FpsHorizon)

\* A session in its loop at time 0, the start of its FPS window, with
\* fastforward off.
InitFps ==
    /\ InitLoop
    /\ NoFiles
    /\ FileIdle
    /\ reply = "none"
    /\ TicksIdle
    /\ Unfollowed
    /\ AudioIdle
    /\ Silent
    /\ WriteIdle
    /\ now = 0
    /\ ClockIdle

NextFps ==
    \/ \E t \in Threads : RunLoop(t)
    \/ \E dt \in {FrameDuration, FrameDuration + 1} : Cadence(dt)

SpecFps == InitFps /\ [][NextFps]_vars

\* ---- the writes of one play_audio call ----
\* chunk_size = 512
chunk_size == 512
\* Largest number of bytes in a quantized chunk: two full writes and a byte.
MaxBytes == 1025

\* A chunk of n bytes, each telling its place.
BytesOf(n) == [k \in 1..n |-> k % 251]

\* A slice that begins a byte early.
SliceEarly(bytes, from, to) ==
    SubSeq(bytes, IF from > 0 THEN from ELSE 1, Min(to, Len(bytes)))

\* bytes[from:to]
Slice(bytes, from, to) == SubSeq(bytes, from + 1, Min(to, Len(bytes)))

\* for i in range(0, len(audio_bytes), chunk_size): one turn of the loop, or
\* the end of the loop.  chunk = audio_bytes[i:i + chunk_size]; if chunk:
\* self.audio_device.write(chunk)
WriteChunk ==
    /\ wpc = "writing"
    /\ IF chunk_i < Len(audio_bytes)
       THEN LET chunk == Slice(audio_bytes, chunk_i, chunk_i + chunk_size)
            IN /\ written' = IF chunk # <<>> THEN Append(written, chunk) ELSE written
               /\ chunk_i' = chunk_i + chunk_size
               /\ UNCHANGED wpc
       ELSE /\ wpc' = "done"
            /\ UNCHANGED <<chunk_i, written>>
    /\ UNCHANGED audio_bytes
    /\ UNCHANGED <<threadVars, coreVars, guiVars, histVars, speedVars, inputVars,
                   storeVars, last_op>>
    /\ UNCHANGED <<fileVars, reply, tickVars, audioVars, soundVars, clockVars>>

\* self.audio_device.write(chunk) raises: except Exception ends the loop.
WriteRaises ==
    /\ wpc = "writing"
    /\ chunk_i < Len(audio_bytes)
    /\ wpc' = "raised"
    /\ UNCHANGED <<audio_bytes, chunk_i, written>>
    /\ UNCHANGED <<threadVars, coreVars, guiVars, histVars, speedVars, inputVars,
                   storeVars, last_op>>
    /\ UNCHANGED <<fileVars, reply, tickVars, audioVars, soundVars, clockVars>>

\* play_audio has an open device and the bytes of a chunk to write.
InitChunk ==
    /\ InitIdle
    /\ NoFiles
    /\ FileIdle
    /\ reply = "none"
    /\ TicksIdle
    /\ Unfollowed
    /\ AudioIdle
    /\ Silent
    /\ Untimed
    /\ audio_bytes \in {BytesOf(n) : n \in 0..MaxBytes}
    /\ chunk_i = 0
    /\ written = <<>>
    /\ wpc = "writing"

NextChunk == WriteChunk \/ WriteRaises

SpecChunk == InitChunk /\ [][NextChunk]_vars

\* ---- the loop under a fair scheduler ----
\* The frame-rate test passes.
PaceDue(t) == Pace(t) /\ tpc'[t] = "check_done"

NextLive ==
    \/ \E t \in Threads : RunLoop(t)
    \/ PauseEmulation
    \/ ResumeEmulation
    \/ ResetEmulation
    \/ CoreCallBegin
    \/ CoreCallEnd

\* The loop thread is scheduled again and again, and as time goes on while it
\* sleeps and tests, its frame-rate test passes in the end.
SpecLive ==
    /\ InitMask
    /\ [][NextLive]_vars
    /\ \A t \in Threads : WF_vars(RunLoop(t)) /\ SF_vars(PaceDue(t))

(***************************************************************************)
(* Audio output: the sessions with their ticks followed, the chunks the    *)
(* GUI thread plays and the audio switch.  init_audio may have failed.     *)
(***************************************************************************)
InitAudio ==
    /\ InitIdle
    /\ NoFiles
    /\ FileIdle
    /\ reply = "none"
    /\ TicksIdle
    /\ Unfollowed
    /\ AudioUnbound
    /\ audio_output \in BOOLEAN
    /\ listen = [t \in Threads |-> MaxChunks]
    /\ Silent
    /\ WriteIdle
    /\ Untimed

NextAudio ==
    \/ Session
    \/ PlayAudio
    \/ \E enabled \in BOOLEAN : SetAudioEnabled(enabled)
    \/ CoreCallBegin
    \/ CoreCallEnd

SpecAudio == InitAudio /\ [][NextAudio]_vars

(***************************************************************************)
(* A snapshot written to a state file and read back.                       *)
(***************************************************************************)
InitFile ==
    /\ InitIdle
    /\ NoFiles
    /\ reply = "none"
    /\ TicksIdle
    /\ Unfollowed
    /\ AudioIdle
    /\ Silent
    /\ WriteIdle
    /\ Untimed
    /\ captured \in StateDatas
    /\ pickled = NoneValue
    /\ reloaded = NoneValue

\* save_state_to_file(state_data, filename): pickle.dump(serializable_state, f)
SaveToFile ==
    /\ pickled = NoneValue
    /\ pickled' = serializable_state(captured)
    /\ UNCHANGED <<captured, reloaded, reply, tickVars, audioVars, soundVars, clockVars, chunkVars>>
    /\ UNCHANGED <<threadVars, coreVars, guiVars, histVars, speedVars, inputVars,
                   storeVars, last_op>>

\* load_state_from_file(filename): pickle.load(f), then the conversions
LoadFromFile ==
    /\ pickled # NoneValue
    /\ reloaded = NoneValue
    /\ reloaded' = load_state_from_file(pickled)
    /\ UNCHANGED <<captured, pickled, reply, tickVars, audioVars, soundVars, clockVars, chunkVars>>
    /\ UNCHANGED <<threadVars, coreVars, guiVars, histVars, speedVars, inputVars,
                   storeVars, last_op>>

NextFile == SaveToFile \/ LoadFromFile

SpecFile == InitFile /\ [][NextFile]_vars

\* The values the variables take.
TypeOK ==
    /\ tpc \in [Threads -> {"unborn", "construct", "in_reset0", "set_running",
                            "set_paused", "set_ff", "loop_test", "check_paused",
                            "pace", "check_done", "in_step", "in_reset",
                            "emit_frame", "pull_audio", "count_fps", "except",
                            "finally", "clear_env", "finished"}]
    /\ env \in [Threads -> BOOLEAN]
    /\ running \in [Threads -> BOOLEAN]
    /\ paused \in [Threads -> BOOLEAN]
    /\ fastforward \in [Threads -> BOOLEAN]
    /\ created \in [Threads -> BOOLEAN]
    /\ closes \in [Threads -> 0..2]
    /\ done \in [Threads -> BOOLEAN]
    /\ rom_path \in RomPaths \cup {None}
    /\ emulation_thread \in Threads \cup {None}
    /\ state_slots \subseteq Slots
    /\ gpc \in {"idle", "stop_wait", "checked", "in_call", "capture"}
    /\ gcont \in {"none", "stop", "start", "load", "error"}
    /\ grom \in RomPaths \cup {None}
    /\ errq \in [Threads -> 0..2]
    /\ faulted \in [Threads -> {"no", "init", "tick"}]
    /\ errs \in [Threads -> 0..2]
    /\ lateUse \in BOOLEAN
    /\ lateStep \in [Threads -> BOOLEAN]
    /\ sawPaused \in [Threads -> BOOLEAN]
    /\ \A t \in Threads : fastforward_speed[t].nan \in BOOLEAN /\ fastforward_speed[t].v \in Int
    /\ speed_request.on \in Threads \cup {None}
    /\ held \subseteq AllKeys
    /\ pressed_keys \subseteq DOMAIN key_mapping
    /\ gui_action \in 0..255
    /\ current_action \in [Threads -> 0..255]
    /\ stepMask \in [Threads -> 0..255]
    /\ last_set \in [Threads -> 0..255]
    /\ slot_data \in [Slots -> SnapshotData]
    /\ \A k \in Slots : (k \in state_slots) = (slot_data[k] # NoData)
    /\ files \in [FileNames -> SnapshotData]
    /\ backup \in [Threads -> [save : 0..MaxCaptures, torn : BOOLEAN]]
    /\ racing \in BOOLEAN
    /\ ncap \in 0..MaxCaptures
    /\ captured \in StateDatas \cup {NoneValue}
    /\ reply \in {"none", "yes", "no"}
    /\ follow \in [Threads -> 0..MaxFollow]
    /\ count \in [Threads -> [steps : 0..MaxFollow, ends : 0..MaxFollow,
                                resets : 0..MaxFollow, frames : 0..MaxFollow,
                                pulls : 0..MaxFollow]]
    /\ frame_count \in [Threads -> 0..MaxFollow]
    /\ screen \in [Threads -> 0..MaxFollow]
    /\ frameq \in Seq([of : Threads, at : 0..MaxFollow])
    /\ Len(frameq) <= MaxFollow * MaxSessions
    /\ shown \in [at : 0..MaxTicks, seen : 0..Torn, shown : BOOLEAN]
    /\ audio_bytes \in Seq(0..255)
    /\ chunk_i \in Nat
    /\ written \in Seq(Seq(0..255))
    /\ wpc \in {"idle", "writing", "done", "raised"}
    /\ now \in -1..Horizon
    /\ current_time \in [Threads -> 0..Horizon]
    /\ last_frame_time \in [Threads -> 0..Horizon]
    /\ fps_start_time \in [Threads -> 0..Horizon]
    /\ current_fps \in [Threads -> Nat]
    /\ fps_emitted \in [Threads -> 0..MaxFollow]
    /\ \A t \in Threads : last_frame_time[t] <= current_time[t] /\ current_time[t] <= Clock
    /\ audio_enabled \in BOOLEAN
    /\ audio_output \in BOOLEAN
    /\ audio_device \in {"none", "open"}
    /\ listen \in [Threads -> 0..MaxChunks]
    /\ abuf \in [Threads -> 0..MaxChunks]
    /\ made \in [Threads -> 0..MaxChunks]
    /\ heard \in [Threads -> 0..MaxChunks]
    /\ audioq \in 0..(MaxChunks * MaxSessions)
    /\ played \in [gate : {"none", "dropped", "passed"}, open : BOOLEAN,
                     write : BOOLEAN, failed : BOOLEAN]
    /\ pickled # NoneValue => pickled.version = "1.0"
    /\ reloaded # NoneValue => pickled # NoneValue
    /\ last_op \in [op : {"none", "save", "save_file", "load", "load_file",
                           "load_rom", "clear"},
                     slot : Slots,
                     result : {"none", "ok", "failed", "refused", "absent",
                               "cancelled", "declined", "begun"},
                     save : 0..MaxCaptures,
                     exact : BOOLEAN]

(***************************************************************************)
(* The claims.                                                             *)
(***************************************************************************)

\* The session of thread t as the specification names its states.
Lifecycle(t) ==
    IF ~IsRunning(t) THEN "Stopped"
    ELSE IF paused[t] THEN "Paused"
    ELSE "Running"

\* The positions of run() inside a tick: the step call, the reset after it,
\* the frame emission, the audio pull, the frame count and FPS event.
TickPcs == {"in_step", "in_reset", "emit_frame", "pull_audio", "count_fps"}

\* The positions of run() after its loop and its except clause.
ExitPcs == {"finally", "clear_env", "finished"}

\* C1: at most one emulator-core handle is live (created and not yet closed)
\* at any time, however start, stop, load-ROM and fault events interleave.
C1_OneLiveHandle == Cardinality({t \in Threads : Live(t)}) <= 1

\* C1 witness: start_emulation found a running session, stopped it, and has
\* started the next thread; the previous session's handle is closed.
C1_Witness ==
    /\ ev.op = "restart"
    /\ ev.on # None
    /\ created[ev.on] /\ closes[ev.on] = 1
    /\ emulation_thread # ev.on
    /\ tpc[emulation_thread] = "construct"

\* C2: stop() returns after a bounded wait: whenever the control context waits
\* inside stop(), the awaited loop is bound to leave: its exit flag is set
\* (running = False) or run() is already past the loop.
C2_StopWaitIsBounded ==
    gpc = "stop_wait" =>
        \/ ~running[emulation_thread]
        \/ tpc[emulation_thread] \in ExitPcs \cup {"except"}

\* C3: a native backup or restore made by the control context and a step
\* call of the loop are never in progress at the same time.
C3_SnapshotExcludesStep ==
    ~(/\ InGuiCall
      /\ gop.op \in {"backup", "restore"}
      /\ \E t \in Threads : InStep(t))

\* C4: no operation is invoked on a core handle after close() was called on
\* it, by the control context (lateUse) or by the loop (past close() the loop
\* only clears env and returns).
C4_NoUseAfterClose ==
    /\ ~lateUse
    /\ \A t \in Threads : closes[t] > 0 => tpc[t] \in {"clear_env", "finished"}

\* C5: cancellation is cooperative: a handle is closed only by its own loop
\* thread in the finally clause of run(), once, with no step in progress, and
\* after the loop was left because the exit flag was read as False or an
\* exception was caught.
C5_CooperativeCancel ==
    [][\A t \in Threads :
          closes'[t] # closes[t] =>
              /\ tpc[t] = "finally"
              /\ closes[t] = 0 /\ closes'[t] = 1
              /\ ~running[t] \/ faulted[t] # "no"]_vars

\* C5 witness: stop() has set the exit flag while a step is in progress; the
\* handle is still live.
C5_Witness ==
    /\ gpc = "stop_wait"
    /\ InStep(emulation_thread)
    /\ ~running[emulation_thread]
    /\ Live(emulation_thread)

\* C6: after the core raised during a tick the loop steps no more on that
\* handle, emits exactly one fault event and closes the handle once; and once
\* the control context has handled the fault event it no longer holds the
\* faulted session.
C6_FaultIsFatal ==
    \A t \in Threads :
        faulted[t] = "tick" =>
            /\ ~lateStep[t]
            /\ tpc[t] \in ExitPcs \cup {"except"}
            /\ errs[t] = (IF tpc[t] = "except" THEN 0 ELSE 1)
            /\ closes[t] = (IF tpc[t] \in {"clear_env", "finished"} THEN 1 ELSE 0)
            /\ (errs[t] = 1 /\ errq[t] = 0 /\ gpc # "stop_wait")
                   => emulation_thread # t

\* C6 witness: a step faulted, the loop has finished, the fault event was
\* handled and the session is torn down.
C6_Witness ==
    \E t \in Threads :
        /\ faulted[t] = "tick"
        /\ tpc[t] = "finished"
        /\ errs[t] = 1 /\ errq[t] = 0
        /\ gpc = "idle"
        /\ emulation_thread = None

\* C7: stop_emulation on a stopped session (no thread is held) changes
\* nothing, and no call of stop_emulation closes a handle.
C7_StopIdempotent ==
    [][ev'.op = "stop" =>
          /\ closes' = closes
          /\ ev'.on = None => UNCHANGED progVars]_vars

\* C7 witness: stop_emulation was called when an earlier stop had already
\* torn the session down.
C7_Witness ==
    /\ ev.op = "stop"
    /\ ev.on = None
    /\ emulation_thread = None
    /\ \E t \in Threads : tpc[t] = "finished" /\ closes[t] = 1 /\ faulted[t] = "no"

\* C8: a session moves only Stopped -> Running, Running <-> Paused and
\* Running/Paused -> Stopped; it starts Running with fastforward off; pause()
\* on a session that is not Running and resume() on one that is not Paused
\* leave its state as it is; and it becomes Stopped only after stop() cleared
\* the exit flag or the loop caught an exception.
C8_Lifecycle ==
    [][\A t \in Threads :
          LET a == Lifecycle(t)
              b == Lifecycle(t)'
          IN  /\ a # b => <<a, b>> \in {<<"Stopped", "Running">>,
                                        <<"Running", "Paused">>,
                                        <<"Paused", "Running">>,
                                        <<"Running", "Stopped">>,
                                        <<"Paused", "Stopped">>}
              /\ (a = "Stopped" /\ b # "Stopped") =>
                     tpc[t] = "unborn" /\ ~paused'[t] /\ ~fastforward'[t]
              /\ (ev'.op = "pause" /\ a # "Running") => b = a
              /\ (ev'.op = "resume" /\ a # "Paused") => b = a
              /\ (a # "Stopped" /\ b = "Stopped") =>
                     ~running[t] \/ faulted[t] # "no"]_vars

\* C8 witness: pause() was called on a session whose loop had already ended
\* (Stopped), and the session is still Stopped.
C8_Witness ==
    /\ ev.op = "pause"
    /\ ev.on # None
    /\ Lifecycle(ev.on) = "Stopped"
    /\ tpc[ev.on] = "finished"

\* C9: from the moment the loop has read the pause flag as set until resume()
\* is called, the loop is at no position of a tick: no step, reset, audio
\* pull, frame, audio or FPS emission.
C9_PausedLoopIdles ==
    \A t \in Threads : sawPaused[t] => tpc[t] \notin TickPcs

\* C9 witness: the loop has seen the pause flag and is back at the pause test,
\* still paused.
C9_Witness ==
    \E t \in Threads : sawPaused[t] /\ paused[t] /\ tpc[t] = "check_paused"

\* C10: start_emulation with no ROM path set changes nothing: no thread
\* object, no core handle, the session stays Stopped.
C10_StartWithoutRom ==
    [][(ev'.op = "start" /\ rom_path = None) =>
          /\ UNCHANGED progVars
          /\ \A t \in Threads : tpc'[t] = "unborn" /\ ~created'[t]]_vars

\* C10 witness: start_emulation was called with no ROM path.
C10_Witness ==
    /\ ev.op = "start"
    /\ rom_path = None
    /\ emulation_thread = None

\* C11: after any sequence of set_fastforward_speed calls the multiplier is at
\* least 1.0: a request below 1.0 is stored as 1.0, a request of 1.0 or more
\* as it is, and the interval of a fastforward tick never exceeds the base
\* interval.
C11_SpeedFloor ==
    /\ \A t \in Threads :
        /\ FloatGe(fastforward_speed[t], Float(FloatScale))
        /\ EffectiveInterval(t) <= FrameDuration
    /\ speed_request.on # None =>
        LET stored == fastforward_speed[speed_request.on]
            arg == speed_request.arg
        IN /\ FloatGt(Float(FloatScale), arg) => stored = Float(FloatScale)
           /\ FloatGe(arg, Float(FloatScale)) => stored = arg

\* C11 witness: a request below 1.0 was made on a thread that is pacing a
\* fastforward tick.
C11_Witness ==
    /\ speed_request.on # None
    /\ FloatGt(Float(FloatScale), speed_request.arg)
    /\ fastforward[speed_request.on]
    /\ tpc[speed_request.on] = "pace"
    /\ EffectiveInterval(speed_request.on) = FrameDuration

\* Thread t calls env.step in this transition.
StepCalled(t) == tpc[t] = "check_done" /\ tpc'[t] = "in_step"

\* The OR of the bit values of the mapped keys that are physically down.
HeldMask == ActionOf(held \cap DOMAIN key_mapping)

\* C12: whatever key events, session starts and stops came before, the mask
\* the loop passes to a step call is the OR of the bit values of exactly the
\* mapped keys that are physically held at that moment (0 when none is).
C12_MaskIsHeldKeys ==
    [][\A t \in Threads : StepCalled(t) => stepMask'[t] = HeldMask]_vars

\* C13: a press or release of an unmapped key changes neither the held-key
\* set of the window nor any action mask; the mapping table has 8 entries
\* with distinct single-bit values, and every mask is within 0..255.
C13_UnmappedIgnored ==
    [][/\ LET moved == (held' \ held) \cup (held \ held')
          IN (moved # {} /\ moved \cap DOMAIN key_mapping = {}) =>
                UNCHANGED <<pressed_keys, gui_action, current_action>>
       /\ Cardinality(DOMAIN key_mapping) = 8
       /\ \A k \in DOMAIN key_mapping : key_mapping[k] \in {1, 2, 4, 8, 16, 32, 64, 128}
       /\ \A j, k \in DOMAIN key_mapping : key_mapping[j] = key_mapping[k] => j = k
       /\ gui_action' \in 0..255
       /\ \A t \in Threads : current_action'[t] \in 0..255]_vars

\* C13 witness: the unmapped key is down while every mapped key is held and
\* the mask is 255.
C13_Witness ==
    /\ UnmappedKey \in held
    /\ pressed_keys = DOMAIN key_mapping
    /\ gui_action = 255
    /\ current_action[emulation_thread] = 255

\* C14: the mask a step call receives is the argument of the latest
\* set_action call on the thread (0 before any call), whole.
C14_LastWriterWins ==
    [][\A t \in Threads : StepCalled(t) => stepMask'[t] = last_set[t]]_vars

\* C14 witness: a step call is in progress whose mask was set by the second
\* of two set_action calls.
C14_Witness ==
    \E t \in Threads :
        /\ InStep(t)
        /\ pressed_keys = {KeyOrder[1], KeyOrder[2]}
        /\ stepMask[t] = BitOr(key_mapping[KeyOrder[1]], key_mapping[KeyOrder[2]])

(***************************************************************************)
(* Save states.                                                            *)
(***************************************************************************)

\* The native restore made for slot k returns in this step.
RestoreReturns(k) ==
    /\ InGuiCall
    /\ gop = Op("restore", k)
    /\ last_op'.result = "ok"

\* Slot k holds the snapshot of the latest save, made in the running session.
SavedLast(k) ==
    /\ k \in state_slots
    /\ slot_data[k].save = ncap
    /\ slot_data[k].by = emulation_thread

\* C15: in one session, a save to slot k immediately followed by a restore of
\* slot k leaves the core in exactly the state it had at the native backup of
\* that save.
C15_NativeRoundTrip ==
    [][\A k \in Slots \ {0} :
          (SavedLast(k) /\ RestoreReturns(k)) =>
              (last_op'.save = slot_data[k].save /\ last_op'.exact)]_vars

\* Slot k holds a snapshot saved in the running session.
SavedHere(k) ==
    /\ k \in state_slots
    /\ slot_data[k].by = emulation_thread

\* C16: within one session, a restore of slot k restores the core state
\* captured by the most recent save to slot k, whatever was saved to other
\* slots or to a file after it.
C16_KeyedBySlot ==
    [][\A k \in Slots \ {0} :
          (SavedHere(k) /\ RestoreReturns(k)) =>
              last_op'.save = slot_data[k].save]_vars

\* save_state(k) ends in this step with "State saved to slot k".
SaveSucceeds(k) ==
    /\ last_op'.op = "save"
    /\ last_op'.slot = k
    /\ last_op'.result = "ok"

\* C17: a successful save to slot k in 1..MaxSlot replaces the snapshot of slot
\* k with the one just captured, leaves every other slot as it was, and writes
\* the serialized snapshot to the file of the ROM and slot k (and to no other
\* file); after it slot k is present and its file exists.
C17_SaveEffect ==
    [][\A k \in Slots \ {0} :
          SaveSucceeds(k) =>
              LET data == [save |-> ncap, by |-> emulation_thread, rom |-> rom_path]
              IN /\ k \in state_slots'
                 /\ slot_data'[k] = data
                 /\ \A j \in Slots \ {k} :
                       /\ slot_data'[j] = slot_data[j]
                       /\ (j \in state_slots') = (j \in state_slots)
                 /\ files'[SlotFile(rom_path, k)] = Serialized(data)
                 /\ files'[SlotFile(rom_path, k)] # NoData
                 /\ \A f \in FileNames \ {SlotFile(rom_path, k)} :
                       files'[f] = files[f]]_vars

\* A second save succeeded on slot 1 while slot 0 holds another snapshot.
C17_Witness ==
    /\ last_op.op = "save"
    /\ last_op.result = "ok"
    /\ last_op.slot \in state_slots
    /\ slot_data[last_op.slot].save = 2
    /\ files[SlotFile(rom_path, last_op.slot)].save = 2
    /\ 0 \in state_slots
    /\ slot_data[0].save = 1

\* C18: when save_state(k) fails (the file write fails, or anything before
\* it), or reading the file fails in load_state_from_file_dialog, the error is
\* shown and the target slot, k or 0, holds exactly what it held before.
C18_FailedIoKeepsSlot ==
    [][(last_op'.result = "failed" /\ last_op'.op \in {"save", "load_file"}) =>
          /\ slot_data'[last_op'.slot] = slot_data[last_op'.slot]
          /\ (last_op'.slot \in state_slots') = (last_op'.slot \in state_slots)]_vars

\* One of the four entry points (save_state, load_state, and the two file
\* dialogs) runs in this step: it ends at once or goes on to a core call.
EntryStep ==
    /\ gpc = "idle"
    /\ (last_op'.op \in {"save", "save_file", "load", "load_file"} \/ gpc' = "checked")

\* No session is running: no thread object, or one whose run() has not
\* started or has returned.
NoSession ==
    \/ emulation_thread = None
    \/ tpc[emulation_thread] \in {"unborn", "finished"}

\* C19: with no session running, save_state, load_state and the file save and
\* load entry points are refused: no slot changes, no file is written and no
\* native backup or restore is invoked.
C19_RefusedWithoutSession ==
    [][(EntryStep /\ NoSession) =>
          /\ last_op'.result = "refused"
          /\ gpc' = "idle"
          /\ UNCHANGED <<state_slots, slot_data, files, backup, ncap>>]_vars

\* A load of a slot that holds a snapshot was refused after its session ended.
C19_Witness ==
    /\ last_op.op = "load"
    /\ last_op.result = "refused"
    /\ last_op.slot \in state_slots
    /\ emulation_thread = None
    /\ files[SlotFile(rom_path, last_op.slot)] # NoData

\* The native restore for slot k is invoked in this step.
RestoreInvoked(k) ==
    /\ gpc = "checked"
    /\ gop = Op("restore", k)
    /\ gpc' = "in_call"

\* C20: in-memory snapshots do not outlive their session: a restore never
\* invokes the native restore primitive for a snapshot that was saved in an
\* earlier session (a snapshot read from a file belongs to no session).
C20_NoStaleRestore ==
    [][\A k \in Slots :
          RestoreInvoked(k) => slot_data[k].by \in {None, emulation_thread}]_vars

\* C21: a snapshot that exists only in serialized form (it was read from a
\* file) is restored without the native restore primitive: the primitive is
\* never invoked for such a slot.
C21_DegradedRestore ==
    [][\A k \in Slots :
          RestoreInvoked(k) => slot_data[k].by # None]_vars

\* Two Python values hold the same data: both None, or the same numbers
\* (whatever the array type), and for the controllers the same pair.
SameValues(a, b) ==
    /\ (a = NoneValue) = (b = NoneValue)
    /\ a # NoneValue => a.v = b.v
SameControllers(a, b) ==
    /\ (a = NoneValue) = (b = NoneValue)
    /\ a # NoneValue => /\ SameValues(a.v[1], b.v[1])
                        /\ SameValues(a.v[2], b.v[2])

\* C22: a snapshot written with save_state_to_file and read back with
\* load_state_from_file has the ROM identity, RAM image, controller states,
\* terminal flag and timestamp of the original.
C22_FileRoundTrip ==
    reloaded # NoneValue =>
        /\ reloaded.rom_path = captured.rom_path
        /\ SameValues(reloaded.ram, captured.ram)
        /\ SameControllers(reloaded.controllers, captured.controllers)
        /\ reloaded.done = captured.done
        /\ reloaded.timestamp = captured.timestamp

\* A snapshot with a RAM image of MaxRam bytes and both controllers came back.
C22_Witness ==
    /\ reloaded # NoneValue
    /\ captured.ram # NoneValue
    /\ Len(captured.ram.v) = MaxRam
    /\ captured.ram.v[1] # captured.ram.v[2]
    /\ captured.controllers # NoneValue
    /\ reloaded.ram.type = "int64"
    /\ captured.done

\* load_state_from_file_dialog read a file and stored its record in this step.
LoadedFromFile ==
    /\ gpc = "idle"
    /\ \/ gop' = Op("restore", 0)
       \/ (last_op'.op = "load_file" /\ last_op'.result = "ok")

\* A step of save_state(k) or load_state(k), k in 1..MaxSlot, or a step taken
\* while one is in progress.
SlotOpStep ==
    \/ gop.slot # 0
    \/ gop'.slot # 0
    \/ last_op'.op \in {"save", "load"}

\* C23: a successful load from a file stores the record read in slot 0 and
\* leaves the slots 1..MaxSlot as they were; the operations on the slots
\* 1..MaxSlot never change slot 0.
C23_TransientSlot ==
    [][/\ LoadedFromFile =>
            /\ 0 \in state_slots'
            /\ \E f \in FileNames : files[f] # NoData /\ slot_data'[0] = files[f]
            /\ \A k \in Slots \ {0} :
                  /\ slot_data'[k] = slot_data[k]
                  /\ (k \in state_slots') = (k \in state_slots)
       /\ SlotOpStep =>
            /\ slot_data'[0] = slot_data[0]
            /\ (0 \in state_slots') = (0 \in state_slots)]_vars

\* A file load ended well with slot 1 holding a snapshot of the session and
\* slot 0 the record of another save, read from a file.
C23_Witness ==
    /\ last_op.op = "load_file"
    /\ last_op.result = "ok"
    /\ state_slots = {0, 1}
    /\ slot_data[1].by = emulation_thread
    /\ slot_data[0].by = None
    /\ slot_data[0].save # slot_data[1].save

\* load_state_from_file_dialog ran with a file chosen, in this step.
FileLoadStep ==
    /\ gpc = "idle"
    /\ last_op'.op = "load_file"

\* load_state_from_file_dialog stored the record it read, in this step, and
\* went on to the restore.
StoredFromFile ==
    /\ FileLoadStep
    /\ last_op'.result \in {"ok", "begun"}

\* C24: a file recorded for another ROM than the active one is loaded only
\* after the user confirmed.  When the answer is No (the default), the load
\* aborts: slot 0, the native backup and the session are unchanged and no
\* restore is invoked.  When it is Yes, the record goes to slot 0 and the
\* restore is invoked as for a matching ROM.  A record for another ROM is
\* never stored without a Yes.
C24_MismatchNeedsConfirmation ==
    [][FileLoadStep =>
          /\ reply' = "no" =>
                /\ last_op'.result = "declined"
                /\ gpc' = "idle"
                /\ UNCHANGED <<state_slots, slot_data, backup, threadVars, coreVars>>
          /\ reply' = "yes" =>
                /\ StoredFromFile
                /\ 0 \in state_slots'
                /\ slot_data'[0].rom # rom_path
                /\ env[emulation_thread] =>
                      (gpc' = "checked" /\ gop' = Op("restore", 0))
          /\ (StoredFromFile /\ slot_data'[0].rom # rom_path) => reply' = "yes"
          /\ (StoredFromFile /\ slot_data'[0].rom = rom_path) =>
                /\ reply' = "none"
                /\ 0 \in state_slots'
                /\ env[emulation_thread] =>
                      (gpc' = "checked" /\ gop' = Op("restore", 0))]_vars

\* The question was answered Yes: the record of the other ROM is in slot 0
\* and the restore is about to be invoked.
C24_Witness ==
    /\ reply = "yes"
    /\ last_op.op = "load_file"
    /\ last_op.result = "begun"
    /\ gop = Op("restore", 0)
    /\ 0 \in state_slots
    /\ slot_data[0].rom = ForeignRom
    /\ rom_path # ForeignRom

\* clear_states ran in this step: from the state manager, or in load_rom or
\* load_recent_rom, which go on to start_emulation in the same step.
Cleared == last_op'.op \in {"clear", "load_rom"}

\* C25: clear-all removes every slot in one step, and it runs whenever a ROM
\* is loaded, before the new session starts: at the end of the load no slot
\* holds a snapshot and the new thread has not run; hence no slot 1..MaxSlot
\* ever holds a snapshot captured against another ROM than the loaded one.
C25_ClearedOnLoad ==
    [][/\ Cleared =>
            /\ state_slots' = {}
            /\ \A k \in Slots : slot_data'[k] = NoData
       /\ last_op'.op = "load_rom" =>
            /\ emulation_thread' # None
            /\ tpc'[emulation_thread'] = "construct"
            /\ rom_path' # None
       /\ rom_path' # rom_path => last_op'.op = "load_rom"
       /\ \A k \in Slots \ {0} :
            k \in state_slots' => slot_data'[k].rom = rom_path']_vars

\* A snapshot was saved in slot 1 with one ROM loaded (its file is still
\* there); the other ROM has just been loaded and slot 1 is absent.
C25_Witness ==
    /\ last_op.op = "load_rom"
    /\ rom_path = ForeignRom
    /\ files[SlotFile(1, 1)] # NoData
    /\ 1 \notin state_slots
    /\ tpc[emulation_thread] = "construct"

\* C26: frames are copy-on-emit: the pixel grid update_frame processes for a
\* frame_ready signal is the core's screen as it was when the signal was
\* emitted, whatever steps the loop performed since.
C26_CopyOnEmit == shown.shown => shown.seen = shown.at

\* play_audio ran for a queued chunk, in this step.
PlayStep == audioq' = audioq - 1

\* C27: while audio is disabled or no QAudioOutput object exists, every chunk
\* is dropped: play_audio neither starts the output nor writes to a device,
\* the bound device stays as it is, and nothing is raised or reported.
C27_AudioGate ==
    [][(PlayStep /\ (~audio_enabled \/ ~audio_output)) =>
          /\ played' = [gate |-> "dropped", open |-> FALSE, write |-> FALSE,
                         failed |-> FALSE]
          /\ audio_device' = audio_device
          /\ gpc' = "idle"
          /\ UNCHANGED <<threadVars, coreVars, guiVars, errs>>]_vars

\* A chunk was dropped while audio was disabled, with the output object there.
C27_Witness ==
    /\ played.gate = "dropped"
    /\ ~audio_enabled
    /\ audio_output

\* C28: the output device is bound only between the first chunk written in a
\* running session with audio enabled and the next stop or audio disable:
\* whenever no session exists or audio is disabled, no device is bound.
C28_DeviceOnlyWhilePlaying ==
    (emulation_thread = None \/ ~audio_enabled) => audio_device = "none"

\* C29: a failure of audio_output.start() or of a write stays inside
\* play_audio: the handler returns, the threads, the core and the session of
\* the GUI are as before, audio stays enabled and the output object stays;
\* every chunk that passes the gate attempts the start (when no device is
\* bound) or the write, and a failed start leaves no device bound, so that
\* the next chunk attempts it again.
C29_AudioFailureNonFatal ==
    [][PlayStep =>
          /\ played'.failed =>
                /\ gpc' = "idle"
                /\ UNCHANGED <<threadVars, coreVars, guiVars, errs, faulted>>
                /\ UNCHANGED <<audio_enabled, audio_output>>
          /\ played'.gate = "passed" =>
                /\ played'.open \/ played'.write
                /\ played'.open = (audio_device = "none")
          /\ (played'.failed /\ ~played'.write) => audio_device' = "none"]_vars

\* audio_output.start() failed for a chunk of a session that is still in its
\* loop, and was tried again, without success, for the next chunk.
C29_Witness ==
    /\ played.failed
    /\ played.open
    /\ ~played.write
    /\ audio_device = "none"
    /\ emulation_thread # None
    /\ running[emulation_thread]
    /\ tpc[emulation_thread] = "loop_test"
    /\ listen[emulation_thread] = 0
    /\ audioq = 0

\* Thread t is between two ticks: at the loop test, the pause test, the
\* frame-rate test or the test of env.done.
BetweenTicks(t) == tpc[t] \in {"loop_test", "check_paused", "pace", "check_done"}

\* Where thread t is in its tick, and what it has done so far: the step, then
\* the reset if the step ended the episode, then the frame, then the count.
TickOrder(t) ==
    LET c == count[t] IN
    /\ tpc[t] = "in_step" =>
            /\ c.frames = c.steps /\ c.resets = c.ends /\ frame_count[t] = c.steps
    /\ (Followed(t) /\ tpc[t] = "in_reset") =>
            /\ c.steps = c.frames + 1 /\ c.ends = c.resets + 1
            /\ frame_count[t] = c.frames
    /\ (Followed(t) /\ tpc[t] = "emit_frame") =>
            /\ c.steps = c.frames + 1 /\ c.resets = c.ends
            /\ frame_count[t] = c.frames
    /\ (Followed(t) /\ tpc[t] \in {"pull_audio", "count_fps"}) =>
            /\ c.frames = c.steps /\ c.resets = c.ends
            /\ frame_count[t] = c.frames - 1
    /\ BetweenTicks(t) =>
            /\ c.frames = c.steps /\ c.resets = c.ends /\ frame_count[t] = c.steps

PullOrder(t) ==
    LET c == count[t] IN
    /\ (Followed(t) /\ tpc[t] \in {"in_reset", "emit_frame", "pull_audio"}) =>
            c.steps = c.pulls + 1
    /\ (Followed(t) /\ tpc[t] = "count_fps") => c.pulls = c.steps
    /\ (BetweenTicks(t) \/ tpc[t] = "in_step") => c.pulls = c.steps

\* The step in which thread t pulls the audio buffer.
PullStep(t) == tpc[t] = "pull_audio" /\ tpc'[t] = "count_fps"

Accepted(t) == tpc[t] = "pace" /\ tpc'[t] = "check_done"

\* C32: a tick is accepted only when the time between the clock reading of
\* this loop iteration and that of the previous accepted tick is at least
\* the effective interval (the base interval, divided by the multiplier iff
\* fastforward is on) with the flag values of this iteration;
\* last_frame_time only changes at the end of an accepted tick, to the clock
\* reading of that tick; a toggle or a speed change moves neither the thread
\* nor its time stamps.
C32_Pacing ==
    [][\A t \in Threads :
          /\ Accepted(t) =>
                current_time[t] - last_frame_time[t] >=
                    (IF fastforward[t]
                     THEN (FrameDuration * FloatScale) \div fastforward_speed[t].v
                     ELSE FrameDuration)
          /\ last_frame_time'[t] # last_frame_time[t] =>
                /\ tpc[t] = "count_fps"
                /\ last_frame_time'[t] = current_time[t]
          /\ (fastforward'[t] # fastforward[t] \/ fastforward_speed'[t] # fastforward_speed[t]) =>
                /\ tpc'[t] = tpc[t]
                /\ last_frame_time'[t] = last_frame_time[t]
                /\ current_time'[t] = current_time[t]]_vars

\* A tick accepted under fastforward, sooner after the previous accepted tick
\* than the base interval allows.
C32_Witness ==
    /\ tpc[1] = "check_done"
    /\ fastforward[1]
    /\ last_frame_time[1] > 0
    /\ current_time[1] - last_frame_time[1] < FrameDuration
    /\ current_time[1] - last_frame_time[1] >= EffectiveInterval(1)

\* The step that ends a tick of thread t: the frame is counted.
CountStep(t) == tpc[t] = "count_fps" /\ tpc'[t] = "loop_test"

\* Thirty ticks after the start of its FPS window thread t has accepted its
\* latest tick half a second (thirty sixtieths) after that start.
AtCadence(t) ==
    /\ frame_count[t] = 30
    /\ last_frame_time[t] - fps_start_time[t] = 500000

RECURSIVE Joined(_)
Joined(chunks) ==
    IF chunks = <<>> THEN <<>> ELSE Head(chunks) \o Joined(Tail(chunks))

\* C34: the writes of a play are non-empty, of 512 bytes at most, and
\* together they are the bytes in their order: at any moment a prefix of
\* them, and when the loop has ended all N of them, in ceil(N/512) writes,
\* none dropped, none reordered.
C34_ChunkedWrites ==
    wpc # "idle" =>
        LET N == Len(audio_bytes)
            sent == Joined(written)
        IN /\ \A k \in 1..Len(written) :
                  Len(written[k]) >= 1 /\ Len(written[k]) <= 512
           /\ Len(sent) <= N
           /\ sent = SubSeq(audio_bytes, 1, Len(sent))
           /\ wpc = "done" =>
                  /\ sent = audio_bytes
                  /\ Len(written) = (N + 511) \div 512

\* 1025 bytes went out in three writes, the last of one byte.
C34_Witness ==
    /\ wpc = "done"
    /\ Len(audio_bytes) = 1025
    /\ Len(written) = 3
    /\ Len(written[3]) = 1

\* C35: once stop has completed and no session exists, no audio-ready event
\* of the stopped session is processed: a late chunk is not played and does
\* not open the audio device again.
C35_NoEventAfterStop ==
    [][(emulation_thread = None /\ gpc = "idle" /\ PlayStep) =>
            /\ ~played'.open
            /\ ~played'.write
            /\ audio_device' = "none"]_vars

\* A step of the code of run() of thread t.
LoopStep(t) == IsRunning(t) /\ tpc'[t] # tpc[t] /\ tpc'[t] # "unborn"

\* C36: a pause or fastforward request made on a started thread is not lost:
\* no step of run(), its initialisation of the flags included, takes back a
\* pause that was requested or a fastforward that was switched on.
C36_RequestKept ==
    [][\A t \in Threads :
          LoopStep(t) =>
              /\ paused[t] => paused'[t]
              /\ fastforward[t] => fastforward'[t]]_vars

\* The core operations the GUI thread makes outside the save and load path.
PlainCoreOps == {"reset", "set_master_volume", "set_audio_enabled"}

\* C37: the reset of reset_emulation, set_master_volume and set_audio_enabled
\* never run while the loop is inside a step or a reset on the same handle,
\* and the handle is not released between the handler's presence check and
\* its call.
C37_PlainOpsExcluded ==
    (emulation_thread # None /\ gop.op \in PlainCoreOps) =>
        /\ gpc = "in_call" => ~InLoopCoreCall(emulation_thread)
        /\ gpc = "checked" => Live(emulation_thread)

\* Thread t is in its loop, running and not paused, between two ticks.
Ticking(t) == BetweenTicks(t) /\ running[t] /\ ~paused[t]

C39_ClosedOnce ==
    \A t \in Threads :
        /\ closes[t] <= 1
        /\ closes[t] = 1 => created[t] /\ tpc[t] \in {"clear_env", "finished"}
        /\ tpc[t] = "clear_env" => closes[t] = 1
        /\ tpc[t] = "finished" => closes[t] = (IF created[t] THEN 1 ELSE 0)
        /\ (~created[t] /\ tpc[t] \in {"finally", "finished"}) =>
               /\ faulted[t] = "init"
               /\ errs[t] = 1
               /\ closes[t] = 0

\* One session failed to allocate its core and reported it; the next one ran
\* and was stopped, and its handle was closed.
C39_Witness ==
    /\ tpc[1] = "finished" /\ ~created[1] /\ closes[1] = 0 /\ errs[1] = 1
    /\ tpc[2] = "finished" /\ created[2] /\ closes[2] = 1 /\ faulted[2] = "no"

\* C40: within one save the native backup and the fields recorded beside it
\* are of the same tick: from the return of the backup call to the copying of
\* the fields the loop performs no step or reset on the handle.
C40_SameTick ==
    [][\A t \in Threads :
          (gpc = "capture" /\ gop.op = "backup" /\ t = emulation_thread) =>
              /\ tpc[t] \notin {"in_step", "in_reset"}
              /\ tpc'[t] \notin {"in_step", "in_reset"}]_vars

=============================================================================
